---- MODULE Spec2Model ----
(***************************************************************************)
(* Lot ledger and status-segment engine of the stock-control API.          *)
(*                                                                         *)
(* The database is three tables: material_lots (lots), stock_transactions  *)
(* (txns) and lot_status_changes (changes), plus stock_transaction_edits   *)
(* (edits).  Row ids are positions in the sequences.  Each request handler *)
(* is a pure operator from the database it reads and the request payload   *)
(* to an outcome: an HTTP status, a detail message and the set of writes   *)
(* its db.commit() makes.  Quantities are integers standing for the floats *)
(* of the code: the 1e-9 tolerances of the edit handlers are not visible   *)
(* on integers.                                                            *)
(***************************************************************************)
EXTENDS Integers, Sequences, FiniteSets, TLC

VARIABLES lots, txns, changes, edits, served, last, sess, users, roles

vars == <<lots, txns, changes, edits, served, last, sess, users, roles>>
db == <<lots, txns, changes, edits>>

(* ------------------------------ bounds --------------------------------- *)
\* Requests that commit in one behaviour (served counts them).
MaxRequests == 2

NULL == "NULL"

(* ---------------------------- master data ------------------------------ *)
\* Material codes of the material master; "MX" is a code with no row.
Materials == {"M1", "M2"}
MaterialCodes == Materials \cup {"MX"}
LotNumbers == {"L1"}

ALLOWED_LOT_STATUSES == {"AVAILABLE", "QUARANTINE", "REJECTED"}

STATUS_ALIASES == [s \in {"RELEASED"} |-> "AVAILABLE"]

\* Statuses a material_lots row can hold: the three written by the code and
\* the legacy RELEASED of old data.
StoredStatuses == ALLOWED_LOT_STATUSES \cup {"RELEASED"}

\* Status strings a client can send.
StatusInputs == {"AVAILABLE", "QUARANTINE", "RELEASED", " rejected ", "BOGUS"}

\* Reason strings a client can send.
ReasonInputs == {" ", "why"}

\* Quantities a client can send (qty: float, no validator in the schema).
QtyInputs == {-1, 1, 2}

\* move_qty a client can send: <<>> is None, <<q>> a number.
MoveQtyInputs == {<<>>, <<-1>>, <<0>>, <<1>>, <<2>>}

\* Users: alice's role grants every permission, bob's none; NULL is a
\* request with no valid token, mallory a name that is no user's.
Users == {"alice", "bob"}
Callers == Users \cup {NULL}
Permissions ==
    [u \in Users |->
        IF u = "alice"
        THEN {"receipts.create", "receipts.edit", "issues.create", "issues.edit"}
        ELSE {}]

\* Money is counted in cents (2 decimals), unit prices in 1/10000 (4
\* decimals); an optional number is <<>> for None and <<n>> for n.
\* Dates: "D1" is a date, "D1T00" the datetime at midnight of that date.
\* The client's forms send the product's manufacture date with every issue
\* and every edit of one; NULL is found on old rows.
ManufactureDateInputs == {"D1T00"}

\* str.strip() on the strings of the model.
strip(s) ==
    CASE s = " " -> ""
      [] s = " rejected " -> "rejected"
      [] OTHER -> s

\* str.upper() on the strings of the model.
upper(s) ==
    CASE s = "rejected" -> "REJECTED"
      [] s = " rejected " -> " REJECTED "
      [] s = "operator" -> "OPERATOR"
      [] OTHER -> s

normalise_statusNoAlias(s) == upper(strip(s))

normalise_status(s) ==
    LET val == upper(strip(s))
    IN IF val \in DOMAIN STATUS_ALIASES THEN STATUS_ALIASES[val] ELSE val

(* ------------------------------ helpers -------------------------------- *)
RECURSIVE SumSeq(_)
SumSeq(s) == IF s = <<>> THEN 0 ELSE Head(s) + SumSeq(Tail(s))

Min(S) == CHOOSE x \in S : \A y \in S : x <= y

get_lot_balanceNoMoves(T, lot_id) ==
    SumSeq([i \in DOMAIN T |->
              IF T[i].lot = lot_id /\ T[i].txn_type # "STATUS_MOVE"
              THEN T[i].qty * T[i].direction ELSE 0])

\* SUM(qty * direction) over the entries of one segment, 0 when none.
get_lot_balance(T, lot_id) ==
    SumSeq([i \in DOMAIN T |-> IF T[i].lot = lot_id THEN T[i].qty * T[i].direction ELSE 0])

(* ------------------------------ outcomes ------------------------------- *)
\* What a handler leaves for db.commit(): rows to insert and fields to set.
\* A lot reference 0 in txns/changes stands for the row of newlot, whose id
\* is assigned by the insert.
NoWrites ==
    [newlot |-> <<>>, txns |-> <<>>, changes |-> <<>>, edits |-> <<>>,
     setstatus |-> <<>>, setattrs |-> <<>>, settxn |-> <<>>]

Reject(code, detail) == [code |-> code, detail |-> detail, w |-> NoWrites]

Accept(code, w) == [code |-> code, detail |-> "OK", w |-> w]

\* A stock_transactions row.  STATUS_MOVE rows carry no price, no
\* manufacture date and no status snapshot.
StatusMove(lot_id, qty, dir) ==
    [lot |-> lot_id, txn_type |-> "STATUS_MOVE", qty |-> qty, direction |-> dir,
     status_at |-> NULL, unit_price |-> <<>>, total_value |-> <<>>,
     product_manufacture_date |-> NULL, created_by |-> NULL]

LotStatusChange(lot_id, old, new, reason) ==
    [lot |-> lot_id, old_status |-> old, new_status |-> new, reason |-> reason,
     changed_by |-> NULL]

\* (payload.changed_by or "").strip() or None
ChangedBy(p) == IF strip(p.changed_by) = "" THEN NULL ELSE strip(p.changed_by)

\* The rows of a status change with the actor of the request on them:
\* created_by of the STATUS_MOVE rows, changed_by of the history rows.
By(w, actor) ==
    [w EXCEPT
       !.txns = [i \in DOMAIN @ |-> [@[i] EXCEPT !.created_by = actor]],
       !.changes = [i \in DOMAIN @ |-> [@[i] EXCEPT !.changed_by = actor]]]

(* ------------------------------- costing ------------------------------- *)
\* a / b rounded to the nearest integer, halves upwards (round(x + 1e-12)),
\* for b > 0.
RoundDiv(a, b) == (2 * a + b) \div (2 * b)

\* _round_money of a value counted in 1/10000: the value in cents.
round_money(v) == RoundDiv(v, 100)

\* _round_unit of the quotient a / b, a counted in 1/10000.
round_unit(a, b) == RoundDiv(a, b)

\* _derive_costs: <<unit_price, total_value>>.
derive_costs(qty, unit_price, total_value) ==
    IF qty <= 0 THEN <<<<>>, <<>>>>
    ELSE IF total_value # <<>>
         THEN << <<round_unit(total_value[1] * 100, qty)>>, total_value >>
    ELSE IF unit_price # <<>>
         THEN << unit_price, <<round_money(qty * unit_price[1])>> >>
    ELSE <<<<>>, <<>>>>

\* COALESCE(total_value, unit_price * qty) of a row, in 1/10000; SUM skips
\* the rows where it is NULL.
ReceiptValue(row) ==
    IF row.total_value # <<>> THEN row.total_value[1] * 100
    ELSE IF row.unit_price # <<>> THEN row.unit_price[1] * row.qty
    ELSE 0

lot_weighted_unit_priceLotWide(L, T, lot_id) ==
    LET R(i) == T[i].txn_type = "RECEIPT"
                /\ lot_id \in DOMAIN L
                /\ L[T[i].lot].material_id = L[lot_id].material_id
                /\ L[T[i].lot].lot_number = L[lot_id].lot_number
        sum_value == SumSeq([i \in DOMAIN T |-> IF R(i) THEN ReceiptValue(T[i]) ELSE 0])
        sum_qty == SumSeq([i \in DOMAIN T |-> IF R(i) THEN T[i].qty ELSE 0])
    IN IF sum_qty <= 0 THEN <<>> ELSE <<round_unit(sum_value, sum_qty)>>

\* Weighted average unit price over the RECEIPT entries of the segment,
\* None when they sum to no quantity.
lot_weighted_unit_price(L, T, lot_id) ==
    LET R(i) == T[i].txn_type = "RECEIPT" /\ T[i].lot = lot_id
        sum_value == SumSeq([i \in DOMAIN T |-> IF R(i) THEN ReceiptValue(T[i]) ELSE 0])
        sum_qty == SumSeq([i \in DOMAIN T |-> IF R(i) THEN T[i].qty ELSE 0])
    IN IF sum_qty <= 0 THEN <<>> ELSE <<round_unit(sum_value, sum_qty)>>

(* ------------------------- change_lot_status --------------------------- *)
\* Destination lookup: first row by id of the same material and lot number
\* whose stored status is the target (or RELEASED for AVAILABLE), not the
\* source.
DestLotNoAlias(L, id, new_status) ==
    LET S == {j \in DOMAIN L :
                /\ L[j].material_id = L[id].material_id
                /\ L[j].lot_number = L[id].lot_number
                /\ L[j].status = new_status
                /\ j # id}
    IN IF S = {} THEN 0 ELSE Min(S)

DestLot(L, id, new_status) ==
    LET dest_statuses == IF new_status = "AVAILABLE"
                         THEN {"AVAILABLE", "RELEASED"} ELSE {new_status}
        S == {j \in DOMAIN L :
                /\ L[j].material_id = L[id].material_id
                /\ L[j].lot_number = L[id].lot_number
                /\ L[j].status \in dest_statuses
                /\ j # id}
    IN IF S = {} THEN 0 ELSE Min(S)

MergeWritesSourceOnly(L, id, dest, old_status, new_status, q, reason) ==
    [NoWrites EXCEPT
       !.txns = <<StatusMove(id, q, -1)>>,
       !.changes = <<LotStatusChange(id, old_status, new_status, <<reason>>)>>]

MergeWrites(L, id, dest, old_status, new_status, q, reason) ==
    [NoWrites EXCEPT
       !.txns = <<StatusMove(id, q, -1), StatusMove(dest, q, 1)>>,
       !.changes = <<LotStatusChange(id, old_status, new_status, <<reason>>),
                     LotStatusChange(dest, normalise_status(L[dest].status), new_status,
                                     <<"Merged in", q, old_status, reason>>)>>]

FlipWritesWithMove(id, old_status, new_status, reason) ==
    [NoWrites EXCEPT
       !.txns = <<StatusMove(id, 1, -1), StatusMove(id, 1, 1)>>,
       !.changes = <<LotStatusChange(id, old_status, new_status, <<reason>>)>>,
       !.setstatus = <<[lot |-> id, status |-> new_status]>>]

FlipWrites(id, old_status, new_status, reason) ==
    [NoWrites EXCEPT
       !.changes = <<LotStatusChange(id, old_status, new_status, <<reason>>)>>,
       !.setstatus = <<[lot |-> id, status |-> new_status]>>]

SplitWritesBareLot(L, id, old_status, new_status, q, reason) ==
    [NoWrites EXCEPT
       !.newlot = <<[material_id |-> L[id].material_id,
                     lot_number |-> L[id].lot_number,
                     expiry_date |-> NULL,
                     status |-> new_status,
                     manufacturer |-> NULL,
                     supplier |-> NULL]>>,
       !.txns = <<StatusMove(id, q, -1), StatusMove(0, q, 1)>>,
       !.changes = <<LotStatusChange(id, old_status, new_status, <<reason>>),
                     LotStatusChange(0, old_status, new_status, <<reason>>)>>]

SplitWritesNoDebit(L, id, old_status, new_status, q, reason) ==
    [NoWrites EXCEPT
       !.newlot = <<[material_id |-> L[id].material_id,
                     lot_number |-> L[id].lot_number,
                     expiry_date |-> L[id].expiry_date,
                     status |-> new_status,
                     manufacturer |-> L[id].manufacturer,
                     supplier |-> L[id].supplier]>>,
       !.txns = <<StatusMove(0, q, 1)>>,
       !.changes = <<LotStatusChange(id, old_status, new_status, <<reason>>),
                     LotStatusChange(0, old_status, new_status, <<reason>>)>>]

SplitWrites(L, id, old_status, new_status, q, reason) ==
    [NoWrites EXCEPT
       !.newlot = <<[material_id |-> L[id].material_id,
                     lot_number |-> L[id].lot_number,
                     expiry_date |-> L[id].expiry_date,
                     status |-> new_status,
                     manufacturer |-> L[id].manufacturer,
                     supplier |-> L[id].supplier]>>,
       !.txns = <<StatusMove(id, q, -1), StatusMove(0, q, 1)>>,
       !.changes = <<LotStatusChange(id, old_status, new_status, <<reason>>),
                     LotStatusChange(0, old_status, new_status, <<reason>>)>>]

\* The quantity to move: the whole balance for a whole-lot change, whatever
\* move_qty says; float(move_qty) otherwise.
MoveQtyAsGiven(p, current_balance) ==
    IF p.move_qty = <<>> THEN current_balance ELSE p.move_qty[1]

MoveQty(p, current_balance) ==
    IF p.whole_lot THEN current_balance ELSE p.move_qty[1]

\* move_qty_f > current_balance
ExceedsBalanceNever(move_qty, current_balance) == FALSE

ExceedsBalance(move_qty, current_balance) == move_qty > current_balance

\* p = [new_status, reason, whole_lot, move_qty, changed_by]; move_qty is <<>> for None
\* and <<q>> for a number (the schema admits nothing else, so float(move_qty)
\* cannot fail).  The checks in the order of the code: <<status, detail>> of
\* the first that fails, <<>> when none does.
StatusChangeErrorReasonFirst(L, T, id, p) ==
    LET balance == get_lot_balance(T, id)
        q == IF p.whole_lot THEN balance ELSE p.move_qty[1]
    IN
    IF id \notin DOMAIN L THEN <<404, "Lot not found">>
    ELSE IF strip(p.reason) = "" THEN <<400, "Reason is required">>
    ELSE IF normalise_status(p.new_status) \notin ALLOWED_LOT_STATUSES
         THEN <<400, "Invalid lot status">>
    ELSE IF normalise_status(p.new_status) = normalise_status(L[id].status)
         THEN <<400, "Status is already set to this value">>
    ELSE IF balance <= 0 THEN <<400, "Cannot change status: lot has zero balance">>
    ELSE IF ~p.whole_lot /\ p.move_qty = <<>>
         THEN <<400, "move_qty is required for partial status changes">>
    ELSE IF q <= 0 THEN <<400, "move_qty must be > 0">>
    ELSE IF ExceedsBalance(q, balance) THEN <<400, "move_qty exceeds current balance">>
    ELSE <<>>

StatusChangeErrorNoReason(L, T, id, p) ==
    LET new_status == normalise_status(p.new_status)
        old_status == normalise_status(L[id].status)
        current_balance == get_lot_balance(T, id)
        move_qty == MoveQty(p, current_balance)
    IN
    IF id \notin DOMAIN L THEN <<404, "Lot not found">>
    ELSE IF new_status \notin ALLOWED_LOT_STATUSES THEN <<400, "Invalid lot status">>
    ELSE IF new_status = old_status THEN <<400, "Status is already set to this value">>
    ELSE IF current_balance <= 0
         THEN <<400, "Cannot change status: lot has zero balance">>
    ELSE IF ~p.whole_lot /\ p.move_qty = <<>>
         THEN <<400, "move_qty is required for partial status changes">>
    ELSE IF move_qty <= 0 THEN <<400, "move_qty must be > 0">>
    ELSE IF ExceedsBalance(move_qty, current_balance)
         THEN <<400, "move_qty exceeds current balance">>
    ELSE <<>>

StatusChangeError(L, T, id, p) ==
    LET new_status == normalise_status(p.new_status)
        old_status == normalise_status(L[id].status)
        current_balance == get_lot_balance(T, id)
        whole_lot == p.whole_lot
        move_qty == MoveQty(p, current_balance)
    IN
    IF id \notin DOMAIN L THEN <<404, "Lot not found">>
    ELSE IF new_status \notin ALLOWED_LOT_STATUSES THEN <<400, "Invalid lot status">>
    ELSE IF strip(p.reason) = "" THEN <<400, "Reason is required">>
    ELSE IF new_status = old_status THEN <<400, "Status is already set to this value">>
    ELSE IF current_balance <= 0
         THEN <<400, "Cannot change status: lot has zero balance">>
    ELSE IF ~whole_lot /\ p.move_qty = <<>>
         THEN <<400, "move_qty is required for partial status changes">>
    ELSE IF move_qty <= 0 THEN <<400, "move_qty must be > 0">>
    ELSE IF ExceedsBalance(move_qty, current_balance)
         THEN <<400, "move_qty exceeds current balance">>
    ELSE <<>>

change_lot_status(L, T, id, p) ==
    LET err == StatusChangeError(L, T, id, p)
        new_status == normalise_status(p.new_status)
        old_status == normalise_status(L[id].status)
        whole_lot == p.whole_lot
        move_qty == MoveQty(p, get_lot_balance(T, id))
        reason == strip(p.reason)
        dest_lot == DestLot(L, id, new_status)
    IN
    IF err # <<>> THEN Reject(err[1], err[2])
    ELSE IF dest_lot # 0
         THEN Accept(200, By(MergeWrites(L, id, dest_lot, old_status, new_status,
                                         move_qty, reason), ChangedBy(p)))
    ELSE IF whole_lot
         THEN Accept(200, By(FlipWrites(id, old_status, new_status, reason), ChangedBy(p)))
    ELSE Accept(200, By(SplitWrites(L, id, old_status, new_status, move_qty, reason),
                        ChangedBy(p)))

(* --------------------------- create_receipt ---------------------------- *)
LotsOf(L, material_id, lot_number) ==
    {j \in DOMAIN L : L[j].material_id = material_id /\ L[j].lot_number = lot_number}

NewLot(material_id, lot_number, expiry_date, manufacturer, supplier) ==
    [material_id |-> material_id, lot_number |-> lot_number, status |-> "AVAILABLE",
     expiry_date |-> expiry_date, manufacturer |-> manufacturer, supplier |-> supplier]

\* The attributes of an existing lot after a receipt for it: a given expiry
\* date replaces the lot's, a given manufacturer or supplier fills an empty
\* one.
LotAttrsAfterReceipt(lot, p) ==
    [expiry_date |-> IF p.expiry_date # NULL /\ lot.expiry_date # p.expiry_date
                     THEN p.expiry_date ELSE lot.expiry_date,
     manufacturer |-> IF p.manufacturer # NULL /\ lot.manufacturer = NULL
                      THEN p.manufacturer ELSE lot.manufacturer,
     supplier |-> IF p.supplier # NULL /\ lot.supplier = NULL
                  THEN p.supplier ELSE lot.supplier]

\* A RECEIPT row with no price and no creator, as old data has them.
Receipt(lot_id, qty) ==
    [lot |-> lot_id, txn_type |-> "RECEIPT", qty |-> qty, direction |-> 1,
     status_at |-> NULL, unit_price |-> <<>>, total_value |-> <<>>,
     product_manufacture_date |-> NULL, created_by |-> NULL]

\* The RECEIPT row create_receipt adds.
ReceiptOf(lot_id, p) ==
    LET costs == derive_costs(p.qty, p.unit_price, p.total_value)
    IN [Receipt(lot_id, p.qty) EXCEPT
          !.unit_price = costs[1], !.total_value = costs[2], !.created_by = p.user]

\* p = [material_code, lot_number, qty, complies_es_criteria, approved,
\* expiry_date, manufacturer, supplier, unit_price, total_value, user];
\* user is the authenticated user,
\* approved is the outcome of the approved-manufacturer check against the
\* material master, which is outside this model.
MultipleResultsFoundNever(matches) == FALSE

\* .one_or_none() raises MultipleResultsFound on two rows or more.
MultipleResultsFound(matches) == Cardinality(matches) > 1

create_receipt(L, T, p) ==
    LET matches == LotsOf(L, p.material_code, p.lot_number)
    IN
    IF ~p.complies_es_criteria THEN Reject(400, "Ensure goods in comply with ES criteria")
    ELSE IF p.material_code \notin Materials THEN Reject(404, "Material not found")
    ELSE IF ~p.approved THEN Reject(400, "Manufacturer is not in the approved list")
    ELSE IF MultipleResultsFound(matches) THEN Reject(500, "MultipleResultsFound")
    ELSE IF matches = {}
         THEN Accept(201, [NoWrites EXCEPT
                             !.newlot = <<NewLot(p.material_code, p.lot_number,
                                                 p.expiry_date, p.manufacturer,
                                                 p.supplier)>>,
                             !.txns = <<ReceiptOf(0, p)>>])
    ELSE LET id == CHOOSE j \in matches : TRUE
         IN Accept(201, [NoWrites EXCEPT
                           !.setattrs = <<[lot |-> id] @@ LotAttrsAfterReceipt(L[id], p)>>,
                           !.txns = <<ReceiptOf(id, p)>>])

(* ---------------------------- create_issue ----------------------------- *)
\* An ISSUE row with no price, no manufacture date and no creator, as old
\* data has them.
Issue(lot_id, qty, status) ==
    [lot |-> lot_id, txn_type |-> "ISSUE", qty |-> qty, direction |-> -1,
     status_at |-> status, unit_price |-> <<>>, total_value |-> <<>>,
     product_manufacture_date |-> NULL, created_by |-> NULL]

\* The price of an issue of qty at a unit price: <<unit_price, total_value>>.
CostsAt(qty, unit_price) ==
    << unit_price,
       IF unit_price # <<>> THEN <<round_money(qty * unit_price[1])>> ELSE <<>> >>

IssueOfAvailable(L, T, lot_id, status, p) ==
    [Issue(lot_id, p.qty, "AVAILABLE") EXCEPT
       !.product_manufacture_date = p.product_manufacture_date,
       !.created_by = p.user]

\* The ISSUE row create_issue adds, priced at the weighted average of the
\* segment's receipts.
IssueOf(L, T, lot_id, status, p) ==
    LET costs == CostsAt(p.qty, lot_weighted_unit_price(L, T, lot_id))
    IN [Issue(lot_id, p.qty, status) EXCEPT
          !.unit_price = costs[1], !.total_value = costs[2],
          !.product_manufacture_date = p.product_manufacture_date,
          !.created_by = p.user]

IssueInsufficientNever(current_balance, qty) == FALSE

IssueInsufficient(current_balance, qty) == current_balance < qty

\* p = [material_code, lot_number, material_lot_id, qty,
\* product_manufacture_date, user]; material_lot_id is 0 for None, user the
\* authenticated user.
MultipleSegmentsNever(matches) == FALSE

\* The else branch after len(matches) == 0 and len(matches) == 1.
MultipleSegments(matches) == Cardinality(matches) > 1

create_issue(L, T, p) ==
    LET matches == LotsOf(L, p.material_code, p.lot_number)
        byid == p.material_lot_id # 0
        found == IF byid
                 THEN {j \in DOMAIN L : j = p.material_lot_id
                                        /\ L[j].material_id = p.material_code}
                 ELSE matches
        creates == ~byid /\ matches = {}
        id == IF creates THEN 0 ELSE CHOOSE j \in found : TRUE
        current_balance == IF creates THEN 0 ELSE get_lot_balance(T, id)
        status == IF creates THEN "AVAILABLE" ELSE L[id].status
    IN
    IF p.material_code \notin Materials THEN Reject(404, "Material not found")
    ELSE IF byid /\ found = {} THEN Reject(404, "Lot segment not found")
    ELSE IF ~byid /\ MultipleSegments(matches)
         THEN Reject(400, "Multiple lot segments exist for this lot number")
    ELSE IF IssueInsufficient(current_balance, p.qty) THEN Reject(400, "Insufficient stock")
    ELSE Accept(201, [NoWrites EXCEPT
                        !.newlot = IF creates
                                   THEN <<NewLot(p.material_code, p.lot_number,
                                                 NULL, NULL, NULL)>>
                                   ELSE <<>>,
                        !.txns = <<IssueOf(L, T, id, status, p)>>])

(* ------------------------ update_issue / receipt ----------------------- *)
\* date.isoformat() and datetime.isoformat() on the dates of the model.
isoformat(d) ==
    CASE d = "D1T00" -> "D1T00:00:00"
      [] OTHER -> d

\* What a Date column keeps of the value assigned to it.
DateColumn(d) ==
    CASE d = "D1T00" -> "D1"
      [] OTHER -> d

\* StockTransactionEdit.snapshot_txn: the JSON object of the entry's fields
\* as the session holds them at the time, keys sorted.
snapshot_txn(id, row) ==
    [id |-> id] @@
    [row EXCEPT !.product_manufacture_date = IF @ = NULL THEN NULL ELSE isoformat(@)]

StockTransactionEdit(id, before, after, reason, edited_by) ==
    [txn |-> id, before_json |-> before, after_json |-> after, edit_reason |-> reason,
     edited_by |-> edited_by]

EditWritesNoRecord(T, id, row, reason, edited_by) ==
    [NoWrites EXCEPT !.settxn = <<[id |-> id, row |-> row]>>]

EditWrites(T, id, row, reason, edited_by) ==
    [NoWrites EXCEPT
       !.settxn = <<[id |-> id, row |-> row]>>,
       !.edits = <<StockTransactionEdit(id, snapshot_txn(id, T[id]),
                                        snapshot_txn(id, row), reason, edited_by)>>]

\* The ISSUE row as update_issue leaves it in the session: the status
\* snapshot is kept, a unit price it has is kept, one it lacks is taken from
\* the segment's receipts.
IssueAfterEditRepriced(L, T, txn, p) ==
    LET costs == CostsAt(p.qty, lot_weighted_unit_price(L, T, txn.lot))
    IN [txn EXCEPT !.qty = p.qty,
                   !.product_manufacture_date = p.product_manufacture_date,
                   !.unit_price = costs[1], !.total_value = costs[2]]

IssueAfterEdit(L, T, txn, p) ==
    LET unit_price == IF txn.unit_price = <<>>
                      THEN lot_weighted_unit_price(L, T, txn.lot)
                      ELSE txn.unit_price
        costs == CostsAt(p.qty, unit_price)
    IN [txn EXCEPT !.qty = p.qty,
                   !.product_manufacture_date = p.product_manufacture_date,
                   !.unit_price = costs[1], !.total_value = costs[2]]

ReceiptAfterEditByEditor(txn, p) ==
    [txn EXCEPT !.qty = p.qty, !.created_by = p.user]

\* The RECEIPT row as update_receipt leaves it in the session.
ReceiptAfterEdit(txn, p) ==
    LET costs ==
          IF p.total_value # <<>> THEN derive_costs(p.qty, <<>>, p.total_value)
          ELSE IF p.unit_price # <<>> THEN derive_costs(p.qty, p.unit_price, <<>>)
          ELSE IF txn.unit_price # <<>> THEN CostsAt(p.qty, txn.unit_price)
          ELSE << <<>>, txn.total_value >>
    IN [txn EXCEPT !.qty = p.qty, !.unit_price = costs[1], !.total_value = costs[2]]

\* p = [qty, edit_reason, product_manufacture_date, user] for an issue,
\* [qty, edit_reason, unit_price, total_value, user] for a receipt; user is
\* the authenticated user.
update_issueResnapshot(L, T, id, p) ==
    LET reason == strip(p.edit_reason)
        txn == T[id]
        current_balance == get_lot_balance(T, txn.lot)
        balance_without_old == current_balance + txn.qty
    IN
    IF reason = "" THEN Reject(400, "edit_reason is required")
    ELSE IF id \notin DOMAIN T \/ txn.txn_type # "ISSUE" THEN Reject(404, "Issue not found")
    ELSE IF p.qty > balance_without_old THEN Reject(400, "Insufficient stock")
    ELSE Accept(200, EditWrites(T, id, [IssueAfterEdit(L, T, txn, p) EXCEPT
                                          !.status_at = L[txn.lot].status],
                                reason, p.user))

update_issueNotFoundFirst(L, T, id, p) ==
    LET reason == strip(p.edit_reason)
        txn == T[id]
        current_balance == get_lot_balance(T, txn.lot)
        balance_without_old == current_balance + txn.qty
    IN
    IF id \notin DOMAIN T \/ txn.txn_type # "ISSUE" THEN Reject(404, "Issue not found")
    ELSE IF reason = "" THEN Reject(400, "edit_reason is required")
    ELSE IF p.qty > balance_without_old THEN Reject(400, "Insufficient stock")
    ELSE Accept(200, EditWrites(T, id, IssueAfterEdit(L, T, txn, p), reason, p.user))

update_issue(L, T, id, p) ==
    LET reason == strip(p.edit_reason)
        txn == T[id]
        current_balance == get_lot_balance(T, txn.lot)
        balance_without_old == current_balance + txn.qty
    IN
    IF reason = "" THEN Reject(400, "edit_reason is required")
    ELSE IF id \notin DOMAIN T \/ txn.txn_type # "ISSUE" THEN Reject(404, "Issue not found")
    ELSE IF p.qty > balance_without_old THEN Reject(400, "Insufficient stock")
    ELSE Accept(200, EditWrites(T, id, IssueAfterEdit(L, T, txn, p), reason, p.user))

update_receiptAnyType(L, T, id, p) ==
    LET reason == strip(p.edit_reason)
        txn == T[id]
        current_balance == get_lot_balance(T, txn.lot)
        balance_without_old == current_balance - txn.qty
        new_balance == balance_without_old + p.qty
    IN
    IF reason = "" THEN Reject(400, "edit_reason is required")
    ELSE IF id \notin DOMAIN T THEN Reject(404, "Receipt not found")
    ELSE IF new_balance < 0 THEN Reject(400, "Edit would make lot balance negative")
    ELSE Accept(200, EditWrites(T, id, ReceiptAfterEdit(txn, p), reason, p.user))

update_receiptUnchecked(L, T, id, p) ==
    LET reason == strip(p.edit_reason)
        txn == T[id]
    IN
    IF reason = "" THEN Reject(400, "edit_reason is required")
    ELSE IF id \notin DOMAIN T \/ txn.txn_type # "RECEIPT" THEN Reject(404, "Receipt not found")
    ELSE Accept(200, EditWrites(T, id, ReceiptAfterEdit(txn, p), reason, p.user))

update_receipt(L, T, id, p) ==
    LET reason == strip(p.edit_reason)
        txn == T[id]
        current_balance == get_lot_balance(T, txn.lot)
        balance_without_old == current_balance - txn.qty
        new_balance == balance_without_old + p.qty
    IN
    IF reason = "" THEN Reject(400, "edit_reason is required")
    ELSE IF id \notin DOMAIN T \/ txn.txn_type # "RECEIPT" THEN Reject(404, "Receipt not found")
    ELSE IF new_balance < 0 THEN Reject(400, "Edit would make lot balance negative")
    ELSE Accept(200, EditWrites(T, id, ReceiptAfterEdit(txn, p), reason, p.user))

(* ------------------------------ db.commit ------------------------------ *)
UniqueOkNone(L) == TRUE

\* uq_material_lots_material_lot_number_status
UniqueOk(L) ==
    \A i, j \in DOMAIN L :
        (/\ L[i].material_id = L[j].material_id
         /\ L[i].lot_number = L[j].lot_number
         /\ L[i].status = L[j].status) => i = j

\* The tables after the writes w are applied in one transaction.
LotsAfter(L, w) ==
    [i \in DOMAIN L |->
        IF w.setstatus # <<>> /\ w.setstatus[1].lot = i
        THEN [L[i] EXCEPT !.status = w.setstatus[1].status]
        ELSE IF w.setattrs # <<>> /\ w.setattrs[1].lot = i
        THEN [L[i] EXCEPT !.expiry_date = w.setattrs[1].expiry_date,
                          !.manufacturer = w.setattrs[1].manufacturer,
                          !.supplier = w.setattrs[1].supplier]
        ELSE L[i]] \o w.newlot

Bind(rows, newid) ==
    [i \in DOMAIN rows |-> IF rows[i].lot = 0 THEN [rows[i] EXCEPT !.lot = newid] ELSE rows[i]]

\* The row as the table keeps it: what each column keeps of the value the
\* session holds.
Stored(row) == [row EXCEPT !.product_manufacture_date = DateColumn(@)]

TxnsAfter(L, T, w) ==
    [i \in DOMAIN T |->
        IF w.settxn # <<>> /\ w.settxn[1].id = i THEN Stored(w.settxn[1].row) ELSE T[i]]
    \o [i \in DOMAIN w.txns |-> Stored(Bind(w.txns, Len(L) + 1)[i])]

ChangesAfterLatestOnly(L, C, w) == Bind(w.changes, Len(L) + 1)

ChangesAfter(L, C, w) == C \o Bind(w.changes, Len(L) + 1)

EditsAfter(E, w) == E \o w.edits

\* The outcome the caller gets: the handler's, unless the commit hits the
\* uniqueness constraint, which no handler catches.
Committed(L, out) ==
    IF out.code < 300 /\ ~UniqueOk(LotsAfter(L, out.w))
    THEN Reject(500, "IntegrityError") ELSE out

\* A behaviour serves requests until MaxRequests of them were accepted.
WithinBounds == served < MaxRequests

NoRequest == [op |-> "none", req |-> <<>>, code |-> 0, detail |-> ""]

\* One request served start to finish with no other request in between.
\* When observed, the request and its response are kept in last, and the
\* behaviour ends there (the guard last = NoRequest of the actions).
Serve(op, req, out, observed) ==
    LET fin == Committed(lots, out)
    IN /\ lots' = LotsAfter(lots, fin.w)
       /\ txns' = TxnsAfter(lots, txns, fin.w)
       /\ changes' = ChangesAfter(lots, changes, fin.w)
       /\ edits' = EditsAfter(edits, fin.w)
       /\ served' = IF fin.code < 300 THEN served + 1 ELSE served
       /\ last' = IF observed
                  THEN [op |-> op, req |-> req, code |-> fin.code, detail |-> fin.detail]
                  ELSE last
       /\ UNCHANGED <<sess, users, roles>>

(* ------------------------------ requests ------------------------------- *)
\* Row ids a client can name: those of the rows there are, and one that
\* names no row.
LotIds == 1 .. (Len(lots) + 1)
TxnIds == 1 .. (Len(txns) + 1)

\* The requests of the sequential and concurrent specifications come from
\* alice, whose role grants every permission; her client sends no
\* changed_by.
StatusChangeRequests ==
    [id : LotIds, new_status : StatusInputs, reason : ReasonInputs,
     whole_lot : BOOLEAN, move_qty : MoveQtyInputs, changed_by : {NULL}]

\* The lot attributes and the price a receipt may carry: nothing, or all
\* three attributes with a total value.
ReceiptAttrs ==
    {[expiry_date |-> NULL, manufacturer |-> NULL, supplier |-> NULL,
      unit_price |-> <<>>, total_value |-> <<>>],
     [expiry_date |-> "E1", manufacturer |-> "MF1", supplier |-> "S1",
      unit_price |-> <<>>, total_value |-> <<5>>]}

ReceiptRequests ==
    {r @@ a : r \in [material_code : MaterialCodes, lot_number : LotNumbers,
                     qty : QtyInputs, complies_es_criteria : BOOLEAN,
                     approved : BOOLEAN, user : {"alice"}],
              a \in ReceiptAttrs}

IssueRequests ==
    [material_code : MaterialCodes, lot_number : LotNumbers,
     material_lot_id : {0} \cup LotIds, qty : QtyInputs,
     product_manufacture_date : ManufactureDateInputs, user : {"alice"}]

\* The price a client may put in the body of POST /issues: none, or a total
\* value.
IssuePriceInputs ==
    {[unit_price |-> <<>>, total_value |-> <<>>],
     [unit_price |-> <<>>, total_value |-> <<5>>]}

\* The JSON bodies of POST /issues, with the user of the token.
IssueBodies == {r @@ c : r \in IssueRequests, c \in IssuePriceInputs}

\* The payload the handler gets: the fields the schema IssueCreate declares;
\* other keys of the body are dropped.
IssueCreate(body) ==
    [f \in DOMAIN body \ {"unit_price", "total_value"} |-> body[f]]

EditRequests ==
    [id : TxnIds, qty : QtyInputs, edit_reason : ReasonInputs, user : {"alice"}]

IssueUpdateRequests ==
    {r @@ [product_manufacture_date |-> d] : r \in EditRequests,
                                             d \in ManufactureDateInputs}

\* The price an edit of a receipt may carry: none, or a unit price.
ReceiptUpdateRequests ==
    {r @@ c : r \in EditRequests,
              c \in {[unit_price |-> <<>>, total_value |-> <<>>],
                     [unit_price |-> <<150>>, total_value |-> <<>>]}}

\* get_current_user and require_permission(permission): 401 without a valid
\* token, 403 when the role of the user does not grant the permission, else
\* what the handler answers.
Authorize(caller, permission, out) ==
    IF caller \notin Users THEN Reject(401, "Not authenticated")
    ELSE IF permission \notin Permissions[caller] THEN Reject(403, "Missing permission")
    ELSE out

\* The endpoints: each handler behind the dependencies its signature
\* declares.  change_lot_status declares none but the database session.
Outcome(op, r) ==
    CASE op = "change_lot_status" -> change_lot_status(lots, txns, r.id, r)
      [] op = "create_receipt" ->
            Authorize(r.user, "receipts.create", create_receipt(lots, txns, r))
      [] op = "create_issue" ->
            Authorize(r.user, "issues.create", create_issue(lots, txns, IssueCreate(r)))
      [] op = "update_issue" ->
            Authorize(r.user, "issues.edit", update_issue(lots, txns, r.id, r))
      [] op = "update_receipt" ->
            Authorize(r.user, "receipts.edit", update_receipt(lots, txns, r.id, r))

\* The status-change requests of the specification with callers: a valid
\* change or merge request with any changed_by, from any caller.
ChangedByInputs == {NULL, "alice", "mallory"}

StatusChangeRequestsBy ==
    [id : LotIds, new_status : {"AVAILABLE", "QUARANTINE"}, reason : {"why"},
     whole_lot : BOOLEAN, move_qty : {<<>>, <<1>>}, changed_by : ChangedByInputs,
     user : Callers]

ChangeLotStatus(observed) ==
    /\ last = NoRequest
    /\ WithinBounds
    /\ \E r \in StatusChangeRequests :
          Serve("change_lot_status", r, Outcome("change_lot_status", r), observed)

CreateReceipt(observed) ==
    /\ last = NoRequest
    /\ WithinBounds
    /\ \E r \in ReceiptRequests :
          Serve("create_receipt", r, Outcome("create_receipt", r), observed)

CreateIssue(observed) ==
    /\ last = NoRequest
    /\ WithinBounds
    /\ \E r \in IssueBodies :
          Serve("create_issue", r, Outcome("create_issue", r), observed)

UpdateIssue(observed) ==
    /\ last = NoRequest
    /\ WithinBounds
    /\ \E r \in IssueUpdateRequests :
          Serve("update_issue", r, Outcome("update_issue", r), observed)

UpdateReceipt(observed) ==
    /\ last = NoRequest
    /\ WithinBounds
    /\ \E r \in ReceiptUpdateRequests :
          Serve("update_receipt", r, Outcome("update_receipt", r), observed)

\* A status-change request of any caller, observed.
ChangeLotStatusAs ==
    /\ last = NoRequest
    /\ WithinBounds
    /\ \E r \in StatusChangeRequestsBy :
          Serve("change_lot_status", r, Outcome("change_lot_status", r), TRUE)

\* An edit of an issue by any caller, observed.
UpdateIssueAs ==
    /\ last = NoRequest
    /\ WithinBounds
    /\ \E c \in Callers, r \in IssueUpdateRequests :
          Serve("update_issue", [r EXCEPT !.user = c],
                Outcome("update_issue", [r EXCEPT !.user = c]), TRUE)

(* ------------------------- concurrent sessions ------------------------- *)
\* Two requests in flight, each in its own database session.  A session
\* runs its handler against the committed rows (BeginRequest: everything up
\* to db.commit()), and later commits (CommitRequest).  Rows added or
\* changed by a session are seen by nobody else before its commit.
Idle == [pc |-> "idle"]
Sessions == {1, 2}

Staged(S) == {s \in Sessions : S[s].pc = "staged"}

\* Sessions are taken in order (the second only while the first has a
\* request in flight), and no more requests begin than may commit.  A
\* session that has answered while the other had a request in flight, or
\* whose commit was refused (pc = "done"), keeps the operation and the
\* response code until it begins its next request or a request of the
\* other is committed.
CanBegin(s) ==
    /\ sess[s].pc # "staged"
    /\ s = 1 \/ sess[1].pc = "staged"
    /\ served + Cardinality(Staged(sess)) < MaxRequests

\* A request the handler rejects ends there, with nothing staged.  What a
\* session holds until its commit is the handler's outcome: the response
\* and the rows it added to the session.
BeginRequest(s, op, r) ==
    LET out == Outcome(op, r)
    IN /\ out.code < 300
       /\ sess' = [sess EXCEPT ![s] =
                     [pc |-> "staged", op |-> op, out |-> out]]
       /\ UNCHANGED <<lots, txns, changes, edits, served, last, users, roles>>

BeginChangeLotStatus(s) ==
    /\ CanBegin(s)
    /\ \E r \in StatusChangeRequests : BeginRequest(s, "change_lot_status", r)

BeginCreateReceipt(s) ==
    /\ CanBegin(s)
    /\ \E r \in ReceiptRequests : BeginRequest(s, "create_receipt", r)

BeginCreateIssue(s) ==
    /\ CanBegin(s)
    /\ \E r \in IssueRequests : BeginRequest(s, "create_issue", r)

BeginUpdateIssue(s) ==
    /\ CanBegin(s)
    /\ \E r \in IssueUpdateRequests : BeginRequest(s, "update_issue", r)

BeginUpdateReceipt(s) ==
    /\ CanBegin(s)
    /\ \E r \in ReceiptUpdateRequests : BeginRequest(s, "update_receipt", r)

\* db.commit() of a session: all of its writes, or none when the
\* uniqueness constraint refuses them.  No handler locks a row it has read
\* (no SELECT ... FOR UPDATE) or checks at commit that what it read still
\* stands, so the writes are those computed by BeginRequest.
CommitRequest(s) ==
    LET se == sess[s]
        fin == Committed(lots, se.out)
    IN /\ se.pc = "staged"
       /\ lots' = LotsAfter(lots, fin.w)
       /\ txns' = TxnsAfter(lots, txns, fin.w)
       /\ changes' = ChangesAfter(lots, changes, fin.w)
       /\ edits' = EditsAfter(edits, fin.w)
       /\ served' = IF fin.code < 300 THEN served + 1 ELSE served
       /\ sess' = IF \E t \in Sessions : t # s /\ sess[t].pc = "staged"
                  THEN [sess EXCEPT ![s] =
                          [pc |-> "done", op |-> se.op, code |-> fin.code]]
                  ELSE IF fin.code >= 300
                  THEN [t \in Sessions |->
                          IF t = s THEN [pc |-> "done", op |-> se.op, code |-> fin.code]
                          ELSE Idle]
                  ELSE [t \in Sessions |-> Idle]
       /\ UNCHANGED <<last, users, roles>>

(* ------------------------- users and roles ----------------------------- *)
SYSTEM_ROLES == {"ADMIN", "SENIOR", "OPERATOR"}
PROTECTED_ADMIN_USERNAME == "admin"

\* A users row.  created_by is NULL on a row that no request created.
User(username, role, is_active, created_by) ==
    [username |-> username, role |-> role, is_active |-> is_active,
     created_by |-> created_by]

\* role_permissions, which none of the requests of the model writes: the
\* permissions granted to a role.
GrantedPermissions(role) == IF role = "ADMIN" THEN {"admin.full"} ELSE {}

\* _get_permissions_for_role: none for a role that has no row.
get_permissions_for_role(R, role_name) ==
    LET role == upper(strip(role_name))
    IN IF role = "" \/ role \notin DOMAIN R THEN {} ELSE GrantedPermissions(role)

\* require_admin_access = require_permission("admin.full") behind
\* get_current_user: the caller is the user the token names.
require_admin_access(U, R, caller, out) ==
    LET rows == {i \in DOMAIN U : U[i].username = caller}
        user == U[CHOOSE i \in rows : TRUE]
    IN IF rows = {} THEN Reject(401, "User not found")
       ELSE IF ~user.is_active THEN Reject(401, "User is inactive")
       ELSE IF "admin.full" \notin get_permissions_for_role(R, user.role)
            THEN Reject(403, "Missing permission")
       ELSE out

active_admin_count(U) ==
    Cardinality({i \in DOMAIN U : U[i].role = "ADMIN" /\ U[i].is_active})

\* payload = [role, is_active, password_len]: role is NULL or a string,
\* is_active is <<>> for None or <<b>>, password_len is <<>> or <<n>>.
is_demoting_or_disabling_admin(u, payload) ==
    LET current_is_admin == upper(u.role) = "ADMIN"
        current_active == u.is_active
        new_role == IF payload.role # NULL THEN upper(strip(payload.role))
                    ELSE upper(u.role)
        new_active == IF payload.is_active # <<>> THEN payload.is_active[1]
                      ELSE current_active
    IN current_is_admin /\ current_active /\ (new_role # "ADMIN" \/ ~new_active)

\* What a request has in its session at db.commit(): the columns of a row
\* whose value it changed, the rows it added, the role it deleted.
NoAdminWrites ==
    [setuser |-> <<>>, newuser |-> <<>>, setrole |-> <<>>, delrole |-> <<>>]

\* The columns of u that the unit of work updates: those whose value
\* differs from the one loaded.
UserChanges(u, user_id, role, is_active) ==
    [id |-> user_id,
     role |-> IF role # <<>> /\ role[1] # u.role THEN role ELSE <<>>,
     is_active |-> IF is_active # <<>> /\ is_active[1] # u.is_active
                   THEN is_active ELSE <<>>]

\* p = [username, role, is_active, password_len, user]; user is the
\* authenticated caller.
create_user(U, R, p) ==
    LET username == strip(p.username)
        role_name == upper(strip(p.role))
    IN
    IF username = "" THEN Reject(400, "username is required")
    ELSE IF \E i \in DOMAIN U : U[i].username = username
         THEN Reject(409, "username already exists")
    ELSE IF role_name = "" THEN Reject(400, "role is required")
    ELSE IF role_name \notin DOMAIN R THEN Reject(400, "Invalid role (does not exist)")
    ELSE IF ~R[role_name].is_active THEN Reject(400, "Role is inactive")
    ELSE IF p.password_len < 6 THEN Reject(400, "password must be at least 6 chars")
    ELSE Accept(201, [NoAdminWrites EXCEPT
                        !.newuser = <<User(username, role_name, p.is_active, p.user)>>])

update_user(U, R, user_id, payload) ==
    LET u == U[user_id]
        role_name == upper(strip(payload.role))
    IN
    IF user_id \notin DOMAIN U THEN Reject(404, "User not found")
    ELSE IF /\ u.username = PROTECTED_ADMIN_USERNAME
            /\ payload.is_active = <<FALSE>>
         THEN Reject(400, "The 'admin' user cannot be made inactive")
    ELSE IF /\ u.username = PROTECTED_ADMIN_USERNAME
            /\ payload.role # NULL /\ role_name # "ADMIN"
         THEN Reject(400, "The 'admin' user role cannot be changed")
    ELSE IF is_demoting_or_disabling_admin(u, payload) /\ active_admin_count(U) <= 1
         THEN Reject(400, "Cannot disable/demote the last active ADMIN user")
    ELSE IF payload.role # NULL /\ role_name \notin DOMAIN R
         THEN Reject(400, "Invalid role (does not exist)")
    ELSE IF payload.role # NULL /\ ~R[role_name].is_active
         THEN Reject(400, "Role is inactive")
    ELSE IF payload.password_len # <<>> /\ payload.password_len[1] < 6
         THEN Reject(400, "password must be at least 6 chars")
    ELSE Accept(200, [NoAdminWrites EXCEPT
                        !.setuser =
                           <<UserChanges(u, user_id,
                                         IF payload.role # NULL THEN <<role_name>>
                                         ELSE <<>>,
                                         payload.is_active)>>])

\* payload = [is_active]: <<>> for None or <<b>>.  The description of a
\* role is not state of the model.
update_role(R, role_name, payload) ==
    LET rn == upper(strip(role_name))
    IN
    IF rn \notin DOMAIN R THEN Reject(404, "Role not found")
    ELSE IF rn \in SYSTEM_ROLES /\ payload.is_active = <<FALSE>>
         THEN Reject(400, "System roles cannot be deactivated")
    ELSE Accept(200, [NoAdminWrites EXCEPT
                        !.setrole = IF /\ payload.is_active # <<>>
                                       /\ payload.is_active[1] # R[rn].is_active
                                    THEN <<[name |-> rn, is_active |-> payload.is_active[1]]>>
                                    ELSE <<>>])

delete_role(U, R, role_name) ==
    LET rn == upper(strip(role_name))
    IN
    IF rn \in SYSTEM_ROLES THEN Reject(400, "Cannot delete system role")
    ELSE IF rn \notin DOMAIN R THEN Reject(404, "Role not found")
    ELSE IF \E i \in DOMAIN U : U[i].role = rn
         THEN Reject(409, "Cannot delete role because users are assigned to it")
    ELSE Accept(204, [NoAdminWrites EXCEPT !.delrole = <<rn>>])

\* The users table after the writes w: UPDATE ... WHERE id for the changed
\* columns of a row, INSERT for a new row.
UsersAfter(U, w) ==
    [i \in DOMAIN U |->
        IF w.setuser # <<>> /\ w.setuser[1].id = i
        THEN [U[i] EXCEPT
                !.role = IF w.setuser[1].role # <<>> THEN w.setuser[1].role[1] ELSE @,
                !.is_active = IF w.setuser[1].is_active # <<>>
                              THEN w.setuser[1].is_active[1] ELSE @]
        ELSE U[i]]
    \o w.newuser

RolesAfter(R, w) ==
    LET names == DOMAIN R \ {w.delrole[i] : i \in DOMAIN w.delrole}
    IN [n \in names |->
          IF w.setrole # <<>> /\ w.setrole[1].name = n
          THEN [R[n] EXCEPT !.is_active = w.setrole[1].is_active]
          ELSE R[n]]

\* users.username is unique, and users.role references roles.name.
UsersIntegrity(U, R) ==
    /\ \A i, j \in DOMAIN U : U[i].username = U[j].username => i = j
    /\ \A i \in DOMAIN U : U[i].role \in DOMAIN R

\* The outcome of db.commit() of an admin request: an IntegrityError that
\* no handler catches when a constraint refuses the writes.
AdminCommitted(U, R, out) ==
    IF out.code < 300 /\ ~UsersIntegrity(UsersAfter(U, out.w), RolesAfter(R, out.w))
    THEN Reject(500, "IntegrityError") ELSE out

\* Strings a client can send as a role, with NULL for none, and as a user
\* name; "GHOST" names no role.
RoleInputs == {"ADMIN", "operator", "QA", "GHOST"}
UsernameInputs == {"admin", "dave", " "}

\* Callers of the admin endpoints: the users there are.
AdminCallers == {users[i].username : i \in DOMAIN users}

UserIds == 1 .. (Len(users) + 1)

UserUpdateRequests ==
    [id : UserIds, role : {NULL, "ADMIN", "operator"},
     is_active : {<<>>, <<TRUE>>, <<FALSE>>}, password_len : {<<>>},
     user : AdminCallers]

UserCreateRequests ==
    [username : UsernameInputs, role : {"ADMIN", "operator", "GHOST"},
     is_active : BOOLEAN, password_len : {5, 6}, user : AdminCallers]

RoleUpdateRequests ==
    [role_name : RoleInputs, is_active : {<<>>, <<TRUE>>, <<FALSE>>},
     user : AdminCallers]

RoleDeleteRequests == [role_name : RoleInputs, user : AdminCallers]

\* The admin endpoints, each behind require_admin_access.
AdminOutcome(op, r) ==
    require_admin_access(users, roles, r.user,
        CASE op = "update_user" -> update_user(users, roles, r.id, r)
          [] op = "create_user" -> create_user(users, roles, r)
          [] op = "update_role" -> update_role(roles, r.role_name, r)
          [] op = "delete_role" -> delete_role(users, roles, r.role_name))

\* An admin request up to db.commit(), in its own session.
BeginAdminRequest(s, op, r) ==
    LET out == AdminOutcome(op, r)
    IN /\ out.code < 300
       /\ sess' = [sess EXCEPT ![s] = [pc |-> "staged", op |-> op, out |-> out]]
       /\ UNCHANGED <<lots, txns, changes, edits, served, last, users, roles>>

BeginUpdateUser(s) ==
    /\ CanBegin(s)
    /\ \E r \in UserUpdateRequests : BeginAdminRequest(s, "update_user", r)

BeginCreateUser(s) ==
    /\ CanBegin(s)
    /\ \E r \in UserCreateRequests : BeginAdminRequest(s, "create_user", r)

BeginUpdateRole(s) ==
    /\ CanBegin(s)
    /\ \E r \in RoleUpdateRequests : BeginAdminRequest(s, "update_role", r)

BeginDeleteRole(s) ==
    /\ CanBegin(s)
    /\ \E r \in RoleDeleteRequests : BeginAdminRequest(s, "delete_role", r)

\* db.commit() of an admin session: its writes, or none when a constraint
\* refuses them.  No handler locks the rows it counted or read.
CommitAdminRequest(s) ==
    LET se == sess[s]
        fin == AdminCommitted(users, roles, se.out)
    IN /\ se.pc = "staged"
       /\ users' = IF fin.code < 300 THEN UsersAfter(users, fin.w) ELSE users
       /\ roles' = IF fin.code < 300 THEN RolesAfter(roles, fin.w) ELSE roles
       /\ served' = IF fin.code < 300 THEN served + 1 ELSE served
       /\ sess' = [sess EXCEPT ![s] = Idle]
       /\ UNCHANGED <<lots, txns, changes, edits, last>>

(* ------------------------------- states -------------------------------- *)
\* Databases a behaviour starts from: empty; old data with a lot still in
\* the legacy status RELEASED; and a lot that was received as 2 and of which
\* 1 was then moved to QUARANTINE (a split).
EmptyDb == [lots |-> <<>>, txns |-> <<>>, changes |-> <<>>]

LegacyDb ==
    [lots |-> <<[NewLot("M1", "L1", "E0", "MF0", NULL) EXCEPT !.status = "RELEASED"]>>,
     txns |-> <<Receipt(1, 2)>>,
     changes |-> <<>>]

SplitDb ==
    [lots |-> <<NewLot("M1", "L1", "E0", "MF0", "S0"),
                [NewLot("M1", "L1", "E0", "MF0", "S0") EXCEPT !.status = "QUARANTINE"]>>,
     txns |-> <<[Receipt(1, 2) EXCEPT !.unit_price = <<250>>, !.total_value = <<5>>,
                                     !.created_by = "alice"],
                StatusMove(1, 1, -1), StatusMove(2, 1, 1)>>,
     changes |-> <<LotStatusChange(1, "AVAILABLE", "QUARANTINE", <<"why">>),
                   LotStatusChange(2, "AVAILABLE", "QUARANTINE", <<"why">>)>>]

\* A lot that was received, issued from twice while AVAILABLE, then put in
\* QUARANTINE as a whole.  The first issue is from before issues were
\* priced; the second was priced before the receipt was last edited.
IssuedDb ==
    [lots |-> <<[NewLot("M2", "L1", NULL, NULL, NULL) EXCEPT !.status = "QUARANTINE"]>>,
     txns |-> <<[Receipt(1, 3) EXCEPT !.unit_price = <<250>>, !.total_value = <<8>>,
                                     !.created_by = "alice"],
                Issue(1, 1, "AVAILABLE"),
                [Issue(1, 1, "AVAILABLE") EXCEPT !.unit_price = <<300>>,
                                                 !.total_value = <<3>>,
                                                 !.product_manufacture_date = "D1",
                                                 !.created_by = "alice"]>>,
     changes |-> <<LotStatusChange(1, "AVAILABLE", "QUARANTINE", <<"why">>)>>]

InitialDatabases == {EmptyDb, LegacyDb, SplitDb, IssuedDb}

\* Roles: the three system roles and a custom one, all active.
SeededRoles == [n \in SYSTEM_ROLES \cup {"QA"} |-> [is_active |-> TRUE]]

\* Users a behaviour starts from: the built-in admin with a second admin
\* and an operator; and old data with two admins and no built-in one.
SeededUsers ==
    <<User("admin", "ADMIN", TRUE, NULL), User("alice", "ADMIN", TRUE, "admin"),
      User("bob", "OPERATOR", TRUE, "admin")>>

TwoAdmins ==
    <<User("alice", "ADMIN", TRUE, NULL), User("carol", "ADMIN", TRUE, NULL)>>

InitialUsers == {SeededUsers, TwoAdmins}

Init ==
    /\ \E d \in InitialDatabases :
          lots = d.lots /\ txns = d.txns /\ changes = d.changes
    /\ edits = <<>>
    /\ served = 0
    /\ last = NoRequest
    /\ sess = [s \in Sessions |-> Idle]
    /\ users = SeededUsers
    /\ roles = SeededRoles

\* The stock tables play no part in the admin requests.
InitAdmin ==
    /\ lots = <<>> /\ txns = <<>> /\ changes = <<>> /\ edits = <<>>
    /\ served = 0
    /\ last = NoRequest
    /\ sess = [s \in Sessions |-> Idle]
    /\ users \in InitialUsers
    /\ roles = SeededRoles

\* Requests one at a time, none observed.
Next ==
    \/ ChangeLotStatus(FALSE)
    \/ CreateReceipt(FALSE)
    \/ CreateIssue(FALSE)
    \/ UpdateIssue(FALSE)
    \/ UpdateReceipt(FALSE)

Spec == Init /\ [][Next]_vars

\* Requests one at a time; a status-change request may be the observed one.
NextStatus ==
    \/ \E o \in BOOLEAN : ChangeLotStatus(o)
    \/ CreateReceipt(FALSE)
    \/ CreateIssue(FALSE)
    \/ UpdateIssue(FALSE)
    \/ UpdateReceipt(FALSE)

SpecStatus == Init /\ [][NextStatus]_vars

\* Requests one at a time; any request may be the observed one.
NextObserved ==
    \E o \in BOOLEAN :
        \/ ChangeLotStatus(o)
        \/ CreateReceipt(o)
        \/ CreateIssue(o)
        \/ UpdateIssue(o)
        \/ UpdateReceipt(o)

SpecObserved == Init /\ [][NextObserved]_vars

\* Requests one at a time; the observed one is a status change or an edit
\* of an issue, from any caller.
NextAuth ==
    \/ ChangeLotStatus(FALSE)
    \/ CreateReceipt(FALSE)
    \/ CreateIssue(FALSE)
    \/ UpdateIssue(FALSE)
    \/ UpdateReceipt(FALSE)
    \/ ChangeLotStatusAs
    \/ UpdateIssueAs

SpecAuth == Init /\ [][NextAuth]_vars

\* Two sessions at a time.
NextConc ==
    \E s \in Sessions :
        \/ BeginChangeLotStatus(s)
        \/ BeginCreateReceipt(s)
        \/ BeginCreateIssue(s)
        \/ BeginUpdateIssue(s)
        \/ BeginUpdateReceipt(s)
        \/ CommitRequest(s)

SpecConc == Init /\ [][NextConc]_vars

\* Admin requests, two sessions at a time.
NextAdmin ==
    \E s \in Sessions :
        \/ BeginUpdateUser(s)
        \/ BeginCreateUser(s)
        \/ BeginUpdateRole(s)
        \/ BeginDeleteRole(s)
        \/ CommitAdminRequest(s)

SpecAdmin == InitAdmin /\ [][NextAdmin]_vars

(* =============================== claims ================================ *)
SegmentKey(l) == <<l.material_id, l.lot_number, normalise_status(l.status)>>

NoDuplicateSegments(L) ==
    \A i, j \in DOMAIN L : SegmentKey(L[i]) = SegmentKey(L[j]) => i = j

BalancesNonNegative(L, T) == \A id \in DOMAIN L : get_lot_balance(T, id) >= 0

SameLot(L, i, j) ==
    L[i].material_id = L[j].material_id /\ L[i].lot_number = L[j].lot_number

\* C1 (I1): with requests served one at a time, no two distinct segments
\* ever share (material, lot_number, normalized status), RELEASED counting
\* as AVAILABLE.
C1_NoDuplicateSegments == NoDuplicateSegments(lots)

\* A lot holds a legacy RELEASED segment and a second segment, and a change
\* to AVAILABLE has been accepted on that second segment.
C1_Witness ==
    \E i, j \in DOMAIN lots :
        /\ i # j /\ SameLot(lots, i, j)
        /\ lots[i].status = "RELEASED"
        /\ \E c \in DOMAIN changes :
              changes[c].lot = j /\ changes[c].new_status = "AVAILABLE"

\* C2 (I2b): after every accepted write of requests served one at a time,
\* every segment's balance, the sum of qty * direction over its entries, is
\* at least 0.
C2_BalanceNeverNegative == BalancesNonNegative(lots, txns)

\* C3: every ledger entry has a strictly positive quantity; the sign of the
\* movement is carried by direction alone.
C3_QuantityPositive == \A i \in DOMAIN txns : txns[i].qty > 0

\* Session s commits in this step.
Commits(s) == sess[s].pc = "staged" /\ sess'[s].pc # "staged" /\ served' = served + 1

\* Session t has committed its request while the other had one in flight.
HasCommitted(t) == sess[t].pc = "done" /\ sess[t].code < 300

\* C4: two status-change requests in flight together never both commit so
\* as to leave a duplicate (material, lot_number, normalized status) or a
\* negative segment balance: when one has committed, the commit of the
\* other keeps both invariants.
C4_ConcurrentStatusChangesSafe ==
    [][\A s, t \in Sessions :
         (/\ s # t
          /\ Commits(s) /\ sess[s].op = "change_lot_status"
          /\ HasCommitted(t) /\ sess[t].op = "change_lot_status"
          /\ NoDuplicateSegments(lots) /\ BalancesNonNegative(lots, txns))
         => (NoDuplicateSegments(lots') /\ BalancesNonNegative(lots', txns'))]_vars

BalanceWriterPairs ==
    {<<"create_issue", "create_issue">>,
     <<"create_issue", "change_lot_status">>, <<"change_lot_status", "create_issue">>,
     <<"create_issue", "update_receipt">>, <<"update_receipt", "create_issue">>,
     <<"create_issue", "update_issue">>, <<"update_issue", "create_issue">>}

\* C5: concurrent writers on one segment (two issues, an issue with a status
\* change, an edit with an issue) that each read the balance and then write
\* never commit a negative balance.
C5_ConcurrentWritersNeverOverdraw ==
    [][\A s, t \in Sessions :
         (/\ s # t
          /\ Commits(s) /\ HasCommitted(t)
          /\ <<sess[s].op, sess[t].op>> \in BalanceWriterPairs
          /\ BalancesNonNegative(lots, txns))
         => BalancesNonNegative(lots', txns')]_vars

IsMove(t, dir) == t.txn_type = "STATUS_MOVE" /\ t.direction = dir

\* C6: in every committed state the STATUS_MOVE entries of a merge or split
\* are all there or none is: the -1 entry on the source is followed by its
\* +1 entry of the same quantity on another, existing segment of the same
\* lot, with a StatusChangeRecord for each of the two; and no +1 entry is
\* without its -1.
C6_StatusMovesAllOrNothing ==
    \A i \in DOMAIN txns :
        /\ IsMove(txns[i], -1) =>
             /\ i + 1 \in DOMAIN txns
             /\ IsMove(txns[i + 1], 1)
             /\ txns[i + 1].qty = txns[i].qty
             /\ txns[i].lot \in DOMAIN lots
             /\ txns[i + 1].lot \in DOMAIN lots
             /\ txns[i + 1].lot # txns[i].lot
             /\ SameLot(lots, txns[i].lot, txns[i + 1].lot)
             /\ \E c \in DOMAIN changes :
                   /\ c + 1 \in DOMAIN changes
                   /\ changes[c].lot = txns[i].lot
                   /\ changes[c + 1].lot = txns[i + 1].lot
        /\ IsMove(txns[i], 1) => (i - 1 \in DOMAIN txns /\ IsMove(txns[i - 1], -1))

\* A merge has committed while the other session has a request in flight:
\* that session reads the committed rows.
C6_Witness ==
    \E s, t \in Sessions :
        /\ s # t
        /\ HasCommitted(s) /\ sess[s].op = "change_lot_status"
        /\ sess[t].pc = "staged"
        /\ Len(txns) >= 2
        /\ IsMove(txns[Len(txns)], 1)
        /\ txns[Len(txns)].lot < Len(lots)
        /\ served = 1

\* The step serves one change_lot_status request and keeps it in last.
ObservedStatusChange == last = NoRequest /\ last'.op = "change_lot_status"

\* The validations of a status change, each stated on the request r and the
\* database before it.
UnknownSegment(L, r) == r.id \notin DOMAIN L
StatusNotAllowed(r) == normalise_status(r.new_status) \notin ALLOWED_LOT_STATUSES
ReasonEmpty(r) == strip(r.reason) = ""
TargetIsCurrent(L, r) ==
    r.id \in DOMAIN L /\ normalise_status(r.new_status) = normalise_status(L[r.id].status)
NoBalance(L, T, r) == r.id \in DOMAIN L /\ get_lot_balance(T, r.id) <= 0
MoveQtyMissing(r) == ~r.whole_lot /\ r.move_qty = <<>>
MoveQtyNotPositive(r) == ~r.whole_lot /\ r.move_qty # <<>> /\ r.move_qty[1] <= 0
MoveQtyOverBalance(L, T, r) ==
    /\ ~r.whole_lot /\ r.move_qty # <<>>
    /\ r.id \in DOMAIN L /\ r.move_qty[1] > get_lot_balance(T, r.id)

FailsValidation(L, T, r) ==
    \/ UnknownSegment(L, r) \/ StatusNotAllowed(r) \/ ReasonEmpty(r)
    \/ TargetIsCurrent(L, r) \/ NoBalance(L, T, r)
    \/ MoveQtyMissing(r) \/ MoveQtyNotPositive(r) \/ MoveQtyOverBalance(L, T, r)

\* C7: a change_lot_status request that fails any validation is refused and
\* leaves segments, ledger entries and StatusChangeRecords as they were.
C7_FailedValidationWritesNothing ==
    [][(ObservedStatusChange /\ FailsValidation(lots, txns, last'.req))
       => (/\ last'.code >= 400
           /\ lots' = lots /\ txns' = txns /\ changes' = changes)]_vars

\* A partial move of more than the balance of an existing segment with
\* stock was refused.
C7_Witness ==
    /\ last.op = "change_lot_status"
    /\ last.detail = "move_qty exceeds current balance"
    /\ last.req.move_qty[1] > get_lot_balance(txns, last.req.id)
    /\ get_lot_balance(txns, last.req.id) > 0

\* The checks in the order claimed, with the response of each.
CheckOrder ==
    <<[code |-> 404, detail |-> "Lot not found"],
      [code |-> 400, detail |-> "Invalid lot status"],
      [code |-> 400, detail |-> "Reason is required"],
      [code |-> 400, detail |-> "Status is already set to this value"],
      [code |-> 400, detail |-> "Cannot change status: lot has zero balance"],
      [code |-> 400, detail |-> "move_qty is required for partial status changes"],
      [code |-> 400, detail |-> "move_qty must be > 0"],
      [code |-> 400, detail |-> "move_qty exceeds current balance"]>>

Violated(L, T, r) ==
    {k \in DOMAIN CheckOrder :
        CASE k = 1 -> UnknownSegment(L, r)
          [] k = 2 -> StatusNotAllowed(r)
          [] k = 3 -> ReasonEmpty(r)
          [] k = 4 -> TargetIsCurrent(L, r)
          [] k = 5 -> NoBalance(L, T, r)
          [] k = 6 -> MoveQtyMissing(r)
          [] k = 7 -> MoveQtyNotPositive(r)
          [] k = 8 -> MoveQtyOverBalance(L, T, r)}

\* C8: the response to a change_lot_status request that violates one or
\* more checks is that of the earliest violated check in the order
\* segment-exists, status-valid, reason-non-empty, target-differs, balance
\* > 0, move_qty checks; a request that violates none is accepted.
C8_EarliestViolatedCheckWins ==
    [][ObservedStatusChange =>
         LET V == Violated(lots, txns, last'.req)
         IN IF V = {} THEN last'.code < 300
            ELSE /\ last'.code = CheckOrder[Min(V)].code
                 /\ last'.detail = CheckOrder[Min(V)].detail]_vars

\* An invalid status with an empty reason on an existing segment was
\* answered 'Invalid lot status'.
C8_Witness ==
    /\ last.op = "change_lot_status"
    /\ last.req.id \in DOMAIN lots
    /\ StatusNotAllowed(last.req) /\ ReasonEmpty(last.req)
    /\ last.detail = "Invalid lot status"

\* Another segment of the same (material, lot_number) has the normalized
\* status tgt.
HasDestination(L, id, tgt) ==
    \E j \in DOMAIN L :
        j # id /\ SameLot(L, j, id) /\ normalise_status(L[j].status) = tgt

\* C9: an accepted change_lot_status changes a segment's status field only
\* for the source of a whole-lot change with no segment of the same lot in
\* the target normalized status; when there is such a segment, whatever its
\* balance, the source keeps its status and the quantity moves by a
\* STATUS_MOVE -1 on the source and +1 on a segment in the target status.
C9_StatusFieldChangesOnlyWithoutDestination ==
    [][(ObservedStatusChange /\ last'.code < 300) =>
         LET r == last'.req
             tgt == normalise_status(r.new_status)
             hasDest == HasDestination(lots, r.id, tgt)
             q == IF r.whole_lot THEN get_lot_balance(txns, r.id) ELSE r.move_qty[1]
             n == Len(txns)
         IN /\ \A j \in DOMAIN lots :
                  lots'[j].status # lots[j].status
                     => (j = r.id /\ r.whole_lot /\ ~hasDest)
            /\ hasDest =>
                  /\ lots' = lots
                  /\ Len(txns') = n + 2
                  /\ SubSeq(txns', 1, n) = txns
                  /\ txns'[n + 1] = StatusMove(r.id, q, -1)
                  /\ IsMove(txns'[n + 2], 1) /\ txns'[n + 2].qty = q
                  /\ txns'[n + 2].lot # r.id
                  /\ SameLot(lots, txns'[n + 2].lot, r.id)
                  /\ normalise_status(lots[txns'[n + 2].lot].status) = tgt]_vars

\* A whole-lot change was accepted towards a status that a segment of zero
\* balance had: the source kept its status and all its stock was moved.
C9_Witness ==
    /\ last.op = "change_lot_status" /\ last.code < 300
    /\ last.req.whole_lot
    /\ normalise_status(lots[last.req.id].status) # normalise_status(last.req.new_status)
    /\ IsMove(txns[Len(txns)], 1)
    /\ txns[Len(txns)].lot < Len(lots)
    /\ get_lot_balance(txns, txns[Len(txns)].lot) = txns[Len(txns)].qty

\* C10 (Case B, FLIP): an accepted whole-lot change with no destination
\* segment sets the source's status to the normalized target, appends one
\* StatusChangeRecord (old = the source's prior normalized status, new =
\* the target), appends no ledger entry, creates no segment and leaves the
\* source's balance as it was.
C10_FlipWritesStatusAndOneRecord ==
    [][(ObservedStatusChange /\ last'.code < 300) =>
         LET r == last'.req
             tgt == normalise_status(r.new_status)
             m == Len(changes)
         IN (r.whole_lot /\ ~HasDestination(lots, r.id, tgt)) =>
               /\ lots' = [lots EXCEPT ![r.id].status = tgt]
               /\ Len(changes') = m + 1
               /\ SubSeq(changes', 1, m) = changes
               /\ changes'[m + 1].lot = r.id
               /\ changes'[m + 1].old_status = normalise_status(lots[r.id].status)
               /\ changes'[m + 1].new_status = tgt
               /\ txns' = txns
               /\ get_lot_balance(txns', r.id) = get_lot_balance(txns, r.id)]_vars

\* A whole-lot change asked as " rejected " was accepted on a lot that has
\* a single segment: the segment is REJECTED and no stock was moved.
C10_Witness ==
    /\ last.op = "change_lot_status" /\ last.code < 300
    /\ last.req.whole_lot /\ last.req.new_status = " rejected "
    /\ lots[last.req.id].status = "REJECTED"
    /\ changes[Len(changes)].lot = last.req.id
    /\ \A i \in DOMAIN txns : txns[i].txn_type # "STATUS_MOVE"
    /\ get_lot_balance(txns, last.req.id) > 0

\* The observed step is an accepted change_lot_status.
AcceptedStatusChange == ObservedStatusChange /\ last'.code < 300

\* C11 (Case C, SPLIT): an accepted partial change of quantity q with no
\* destination segment creates one segment with the source's material,
\* lot_number, expiry, manufacturer and supplier and status = target,
\* appends the two STATUS_MOVE entries (q, -1 on the source; q, +1 on the
\* new segment) and two StatusChangeRecords, one per segment; the source's
\* balance drops by q, the new segment's balance is q, and the source keeps
\* its status.
C11_SplitCreatesSegmentAndMovesQty ==
    [][AcceptedStatusChange =>
         LET r == last'.req
             tgt == normalise_status(r.new_status)
             q == r.move_qty[1]
             n == Len(lots)
             m == Len(changes)
         IN (~r.whole_lot /\ ~HasDestination(lots, r.id, tgt)) =>
               /\ Len(lots') = n + 1
               /\ SubSeq(lots', 1, n) = lots
               /\ lots'[n + 1].material_id = lots[r.id].material_id
               /\ lots'[n + 1].lot_number = lots[r.id].lot_number
               /\ lots'[n + 1].expiry_date = lots[r.id].expiry_date
               /\ lots'[n + 1].manufacturer = lots[r.id].manufacturer
               /\ lots'[n + 1].supplier = lots[r.id].supplier
               /\ lots'[n + 1].status = tgt
               /\ txns' = txns \o <<StatusMove(r.id, q, -1), StatusMove(n + 1, q, 1)>>
               /\ Len(changes') = m + 2
               /\ SubSeq(changes', 1, m) = changes
               /\ changes'[m + 1].lot = r.id
               /\ changes'[m + 2].lot = n + 1
               /\ get_lot_balance(txns', r.id) = get_lot_balance(txns, r.id) - q
               /\ get_lot_balance(txns', n + 1) = q]_vars

\* A part of a segment that has an expiry date, a manufacturer and a
\* supplier was split off into a new segment.
C11_Witness ==
    /\ last.op = "change_lot_status" /\ last.code < 300
    /\ ~last.req.whole_lot
    /\ Len(txns) >= 2
    /\ txns[Len(txns)] = StatusMove(Len(lots), last.req.move_qty[1], 1)
    /\ lots[Len(lots)].status = normalise_status(last.req.new_status)
    /\ lots[last.req.id].expiry_date # NULL
    /\ lots[last.req.id].manufacturer # NULL
    /\ lots[last.req.id].supplier # NULL
    /\ get_lot_balance(txns, last.req.id) > 0

\* C12: in a split the StatusChangeRecord on the source has old status =
\* new status = the source's own status, and the record on the new segment
\* has old = source status and new = target.
C12_SplitRecordOnSourceKeepsStatus ==
    [][AcceptedStatusChange =>
         LET r == last'.req
             tgt == normalise_status(r.new_status)
             src == normalise_status(lots[r.id].status)
             m == Len(changes)
         IN (~r.whole_lot /\ ~HasDestination(lots, r.id, tgt)) =>
               /\ Len(changes') = m + 2
               /\ changes'[m + 1].lot = r.id
               /\ changes'[m + 1].old_status = src
               /\ changes'[m + 1].new_status = src
               /\ changes'[m + 2].lot = Len(lots) + 1
               /\ changes'[m + 2].old_status = src
               /\ changes'[m + 2].new_status = tgt]_vars

\* C13 (Case A, MERGE): an accepted change of quantity q, whole-lot or
\* partial, with a destination segment appends the two STATUS_MOVE entries
\* (q, -1 on the source; q, +1 on the destination) and two
\* StatusChangeRecords, one per segment, creates no segment and changes no
\* status field; the source's balance drops by q and the destination's
\* rises by q; after a whole-lot merge the source's balance is 0.
C13_MergeMovesQtyBetweenSegments ==
    [][AcceptedStatusChange =>
         LET r == last'.req
             tgt == normalise_status(r.new_status)
             q == IF r.whole_lot THEN get_lot_balance(txns, r.id) ELSE r.move_qty[1]
             m == Len(changes)
         IN HasDestination(lots, r.id, tgt) =>
               \E d \in DOMAIN lots :
                  /\ d # r.id /\ SameLot(lots, d, r.id)
                  /\ normalise_status(lots[d].status) = tgt
                  /\ lots' = lots
                  /\ txns' = txns \o <<StatusMove(r.id, q, -1), StatusMove(d, q, 1)>>
                  /\ Len(changes') = m + 2
                  /\ SubSeq(changes', 1, m) = changes
                  /\ changes'[m + 1].lot = r.id
                  /\ changes'[m + 2].lot = d
                  /\ get_lot_balance(txns', r.id) = get_lot_balance(txns, r.id) - q
                  /\ get_lot_balance(txns', d) = get_lot_balance(txns, d) + q
                  /\ r.whole_lot => get_lot_balance(txns', r.id) = 0]_vars

\* A whole segment was merged into a segment that had stock: the source is
\* empty and keeps its status, the destination holds more than was moved.
C13_Witness ==
    /\ last.op = "change_lot_status" /\ last.code < 300
    /\ last.req.whole_lot
    /\ normalise_status(lots[last.req.id].status) # normalise_status(last.req.new_status)
    /\ get_lot_balance(txns, last.req.id) = 0
    /\ IsMove(txns[Len(txns)], 1)
    /\ txns[Len(txns)].lot # last.req.id
    /\ get_lot_balance(txns, txns[Len(txns)].lot) > txns[Len(txns)].qty

\* C14: a whole-lot change moves the segment's full current balance
\* whatever move_qty the caller sent (none, zero, negative, larger than the
\* balance): it is accepted whenever the checks before move_qty pass, and
\* what it moves is the balance.  A partial change without move_qty is
\* refused.
C14_WholeLotMovesFullBalance ==
    [][ObservedStatusChange =>
         LET r == last'.req
             balance == get_lot_balance(txns, r.id)
             n == Len(txns)
             passes == ~(\/ UnknownSegment(lots, r) \/ StatusNotAllowed(r)
                         \/ ReasonEmpty(r) \/ TargetIsCurrent(lots, r)
                         \/ NoBalance(lots, txns, r))
         IN /\ (r.whole_lot /\ passes) =>
                  /\ last'.code < 300
                  /\ \/ txns' = txns
                     \/ /\ Len(txns') = n + 2
                        /\ txns'[n + 1] = StatusMove(r.id, balance, -1)
                        /\ IsMove(txns'[n + 2], 1) /\ txns'[n + 2].qty = balance
                        /\ get_lot_balance(txns', r.id) = 0
            /\ (~r.whole_lot /\ r.move_qty = <<>>) =>
                  /\ last'.code >= 400
                  /\ passes => last'.detail = "move_qty is required for partial status changes"
                  /\ lots' = lots /\ txns' = txns /\ changes' = changes]_vars

\* A whole-lot change that carried a move_qty other than the balance was
\* accepted and moved the balance.
C14_Witness ==
    /\ last.op = "change_lot_status" /\ last.code < 300
    /\ last.req.whole_lot /\ last.req.move_qty # <<>>
    /\ IsMove(txns[Len(txns)], 1)
    /\ txns[Len(txns)].qty # last.req.move_qty[1]
    /\ last.req.move_qty[1] <= 0 \/ last.req.move_qty[1] > txns[Len(txns)].qty

\* The response and the tables after request r served on (L, T, C).
StatusChangeResult(L, T, C, r) ==
    LET fin == Committed(L, change_lot_status(L, T, r.id, r))
    IN [code |-> fin.code, detail |-> fin.detail, lots |-> LotsAfter(L, fin.w),
        txns |-> TxnsAfter(L, T, fin.w), changes |-> ChangesAfter(L, C, fin.w)]

\* C15: statuses are normalized before every comparison: a request for
\* RELEASED does what the same request for AVAILABLE does, and one for
\* " rejected " what one for REJECTED does; a segment stored
\* as RELEASED refuses a change to AVAILABLE as already set; and a change to
\* AVAILABLE merges into a segment of the lot stored as RELEASED, without
\* flipping or splitting.
C15_StatusesNormalizedBeforeComparison ==
    [][ObservedStatusChange =>
         LET r == last'.req
             n == Len(txns)
         IN /\ r.new_status = "RELEASED" =>
                  [code |-> last'.code, detail |-> last'.detail, lots |-> lots',
                   txns |-> txns', changes |-> changes']
                  = StatusChangeResult(lots, txns, changes,
                                       [r EXCEPT !.new_status = "AVAILABLE"])
            /\ r.new_status = " rejected " =>
                  [code |-> last'.code, detail |-> last'.detail, lots |-> lots',
                   txns |-> txns', changes |-> changes']
                  = StatusChangeResult(lots, txns, changes,
                                       [r EXCEPT !.new_status = "REJECTED"])
            /\ (/\ r.id \in DOMAIN lots /\ lots[r.id].status = "RELEASED"
                /\ r.new_status \in {"AVAILABLE", "RELEASED"} /\ ~ReasonEmpty(r)) =>
                  /\ last'.code = 400
                  /\ last'.detail = "Status is already set to this value"
            /\ (/\ last'.code < 300
                /\ r.new_status \in {"AVAILABLE", "RELEASED"}
                /\ \E j \in DOMAIN lots :
                      j # r.id /\ SameLot(lots, j, r.id) /\ lots[j].status = "RELEASED") =>
                  /\ lots' = lots
                  /\ Len(txns') = n + 2
                  /\ IsMove(txns'[n + 2], 1)
                  /\ lots[txns'[n + 2].lot].status = "RELEASED"]_vars

\* A request for RELEASED was accepted and merged into the segment of the
\* lot that is stored as RELEASED.
C15_Witness ==
    /\ last.op = "change_lot_status" /\ last.code < 300
    /\ last.req.new_status = "RELEASED"
    /\ IsMove(txns[Len(txns)], 1)
    /\ txns[Len(txns)].lot # last.req.id
    /\ lots[txns[Len(txns)].lot].status = "RELEASED"
    /\ lots[last.req.id].status = "QUARANTINE"

\* The step serves one request of operation op and keeps it in last.
Observed(op) == last = NoRequest /\ last'.op = op

\* The segments an issue request names: the one of the given id if it is of
\* the material, else those of the material and lot number.
ResolvedSegments(L, r) ==
    IF r.material_lot_id # 0
    THEN {j \in DOMAIN L : j = r.material_lot_id /\ L[j].material_id = r.material_code}
    ELSE LotsOf(L, r.material_code, r.lot_number)

\* C16: a create_issue request whose quantity exceeds the balance of the
\* segment it resolves to (0 for a lot that has no segment yet) is refused
\* as a validation error and writes nothing: no ledger entry, no segment,
\* every balance as before.
C16_OverdrawingIssueWritesNothing ==
    [][Observed("create_issue") =>
         LET r == last'.req
             seg == ResolvedSegments(lots, r)
             balance == IF seg = {} THEN 0
                        ELSE get_lot_balance(txns, CHOOSE j \in seg : TRUE)
         IN (/\ r.material_code \in Materials
             /\ Cardinality(seg) = 1 \/ (seg = {} /\ r.material_lot_id = 0)
             /\ r.qty > balance) =>
               /\ last'.code = 400
               /\ last'.detail = "Insufficient stock"
               /\ lots' = lots /\ txns' = txns
               /\ changes' = changes /\ edits' = edits]_vars

\* An issue of more than the stock of an existing segment was refused.
C16_Witness ==
    /\ last.op = "create_issue"
    /\ last.detail = "Insufficient stock"
    /\ last.req.material_lot_id \in DOMAIN lots
    /\ get_lot_balance(txns, last.req.material_lot_id) > 0
    /\ last.req.qty > get_lot_balance(txns, last.req.material_lot_id)

\* C17: a segment comes into existence only by a receipt for a (material,
\* lot) that has no segment yet or by a split (a partial status change with
\* no destination); no other accepted operation adds a segment.
C17_SegmentsOnlyFromReceiptOrSplit ==
    [][(last = NoRequest /\ last' # NoRequest /\ Len(lots') > Len(lots)) =>
         LET r == last'.req
         IN \/ /\ last'.op = "create_receipt"
               /\ LotsOf(lots, r.material_code, r.lot_number) = {}
            \/ /\ last'.op = "change_lot_status"
               /\ ~r.whole_lot
               /\ ~HasDestination(lots, r.id, normalise_status(r.new_status))]_vars

\* C18: history is append-only: every segment, ledger entry,
\* StatusChangeRecord and EditRecord of a state is there in the next, and
\* the StatusChangeRecords and EditRecords there are keep their fields.
C18_HistoryAppendOnly ==
    [][/\ Len(lots') >= Len(lots)
       /\ \A i \in DOMAIN lots :
             /\ lots'[i].material_id = lots[i].material_id
             /\ lots'[i].lot_number = lots[i].lot_number
       /\ Len(txns') >= Len(txns)
       /\ \A i \in DOMAIN txns :
             /\ txns'[i].lot = txns[i].lot
             /\ txns'[i].txn_type = txns[i].txn_type
       /\ Len(changes') >= Len(changes)
       /\ SubSeq(changes', 1, Len(changes)) = changes
       /\ Len(edits') >= Len(edits)
       /\ SubSeq(edits', 1, Len(edits)) = edits]_vars

\* Two requests after a split: there are StatusChangeRecords and an
\* EditRecord, and a segment with no stock is still there.
C18_Witness ==
    /\ served = MaxRequests
    /\ Len(changes) >= 4
    /\ Len(edits) >= 1
    /\ \E i \in DOMAIN lots : get_lot_balance(txns, i) = 0

\* C19: the status snapshot of an ISSUE entry is the status its segment had
\* when the issue was created, and no later step changes it.
C19_IssueStatusSnapshotImmutable ==
    [][/\ \A i \in DOMAIN txns :
             txns[i].txn_type = "ISSUE" => txns'[i].status_at = txns[i].status_at
       /\ \A i \in DOMAIN txns' \ DOMAIN txns :
             txns'[i].txn_type = "ISSUE" =>
                /\ txns'[i].status_at # NULL
                /\ txns'[i].status_at =
                      IF txns'[i].lot \in DOMAIN lots
                      THEN lots[txns'[i].lot].status ELSE "AVAILABLE"]_vars

\* An ISSUE entry still carries the status its segment had, after the
\* segment was flipped to another status.
C19_Witness ==
    \E i \in DOMAIN txns :
        /\ txns[i].txn_type = "ISSUE"
        /\ txns[i].status_at # lots[txns[i].lot].status
        /\ \E c \in DOMAIN changes :
              /\ changes[c].lot = txns[i].lot
              /\ changes[c].new_status = lots[txns[i].lot].status

\* C20: update_issue and update_receipt refuse a request whose edit reason
\* is empty or blank before any other check, with the ledger entry as it
\* was and no EditRecord written.
C20_EmptyEditReasonRejectedFirst ==
    [][(Observed("update_issue") \/ Observed("update_receipt")) =>
         (strip(last'.req.edit_reason) = "" =>
             /\ last'.code = 400
             /\ last'.detail = "edit_reason is required"
             /\ lots' = lots /\ txns' = txns
             /\ changes' = changes /\ edits' = edits)]_vars

\* An edit with a blank reason of an entry that does not exist was
\* answered 'edit_reason is required', not 'not found'.
C20_Witness ==
    /\ last.op \in {"update_issue", "update_receipt"}
    /\ last.req.edit_reason = " "
    /\ last.req.id \notin DOMAIN txns
    /\ last.detail = "edit_reason is required"
    /\ Len(txns) > 0

ObservedEdit == Observed("update_issue") \/ Observed("update_receipt")

\* The edit record the step appended.
NewEdit == edits'[Len(edits')]

\* C21: every accepted update_issue or update_receipt appends exactly one
\* EditRecord for the edited entry, with the snapshot of the entry before
\* the edit, the snapshot after it, the trimmed reason and the
\* authenticated user, in the commit that changes the entry and nothing
\* else; every rejected edit leaves the ledger and the edit records as they
\* were.  (How the snapshot renders a date is C26's matter.)
C21_EveryEditWritesOneRecord ==
    [][ObservedEdit =>
         LET r == last'.req
             id == r.id
         IN IF last'.code < 300
            THEN /\ Len(edits') = Len(edits) + 1
                 /\ edits' = edits \o <<NewEdit>>
                 /\ NewEdit.txn = id
                 /\ NewEdit.before_json = snapshot_txn(id, txns[id])
                 /\ \A f \in DOMAIN txns'[id] \ {"product_manufacture_date"} :
                       NewEdit.after_json[f] = txns'[id][f]
                 /\ NewEdit.after_json.id = id
                 /\ NewEdit.edit_reason = strip(r.edit_reason)
                 /\ NewEdit.edited_by = r.user
                 /\ txns'[id].qty = r.qty
                 /\ txns' = [txns EXCEPT ![id] = txns'[id]]
                 /\ lots' = lots /\ changes' = changes
            ELSE /\ txns' = txns /\ edits' = edits
                 /\ lots' = lots /\ changes' = changes]_vars

\* An edit that changed an entry's quantity was accepted, and the entry's
\* edit record shows the old and the new quantity.
C21_Witness ==
    /\ last.op \in {"update_issue", "update_receipt"}
    /\ last.code < 300
    /\ Len(edits) > 0
    /\ edits[Len(edits)].txn = last.req.id
    /\ edits[Len(edits)].before_json.qty # last.req.qty
    /\ edits[Len(edits)].after_json.qty = last.req.qty

\* The entry an edit request names is there and of the operation's type,
\* and the request carries a reason: the checks before the balance check.
EditReachesBalanceCheck(T, op, r) ==
    /\ strip(r.edit_reason) # ""
    /\ r.id \in DOMAIN T
    /\ T[r.id].txn_type = IF op = "update_issue" THEN "ISSUE" ELSE "RECEIPT"

\* The segment's balance with the entry's quantity replaced by the new one.
BalanceAfterEdit(T, r) ==
    get_lot_balance(T, T[r.id].lot) - T[r.id].qty * T[r.id].direction
                                    + r.qty * T[r.id].direction

\* C22: an edit of an entry's quantity is accepted only if the segment's
\* balance with the old quantity taken out and the new one put in (receipt:
\* balance - old + new; issue: balance + old - new) is not negative, and
\* that is then the segment's balance; otherwise the edit is answered 400
\* and the balance stays as it was.
C22_EditKeepsBalanceNonNegative ==
    [][ObservedEdit =>
         LET r == last'.req
             lot == txns[r.id].lot
         IN EditReachesBalanceCheck(txns, last'.op, r) =>
              IF BalanceAfterEdit(txns, r) >= 0
              THEN /\ last'.code < 300
                   /\ get_lot_balance(txns', lot) = BalanceAfterEdit(txns, r)
              ELSE /\ last'.code = 400
                   /\ get_lot_balance(txns', lot) = get_lot_balance(txns, lot)
                   /\ txns' = txns]_vars

\* An edit that lowers a receipt to a positive quantity below what was
\* already taken from the segment was refused.
C22_Witness ==
    /\ last.op = "update_receipt"
    /\ last.code = 400
    /\ last.detail = "Edit would make lot balance negative"
    /\ last.req.qty > 0
    /\ last.req.qty < txns[last.req.id].qty

\* The ledger entry the step appended.
NewTxn == txns'[Len(txns')]

\* C23: an ISSUE is priced, in this order, from the total value the caller
\* sent (unit = total / qty), else from the unit price the caller sent
\* (total = qty * unit), else at the weighted average of the segment's
\* RECEIPT entries.
C23_IssuePricedByPriority ==
    [][(Observed("create_issue") /\ last'.code < 300 /\ last'.req.qty > 0) =>
         LET r == last'.req
         IN /\ Len(txns') = Len(txns) + 1
            /\ NewTxn.txn_type = "ISSUE"
            /\ IF r.total_value # <<>>
               THEN /\ NewTxn.total_value = r.total_value
                    /\ NewTxn.unit_price = <<round_unit(r.total_value[1] * 100, r.qty)>>
               ELSE IF r.unit_price # <<>>
               THEN /\ NewTxn.unit_price = r.unit_price
                    /\ NewTxn.total_value = <<round_money(r.qty * r.unit_price[1])>>
               ELSE /\ NewTxn.unit_price = lot_weighted_unit_price(lots, txns, NewTxn.lot)
                    /\ NewTxn.total_value = CostsAt(r.qty, NewTxn.unit_price)[2]]_vars

\* The total quantity of the RECEIPT entries of a segment.
ReceiptQty(T, lot_id) ==
    SumSeq([i \in DOMAIN T |->
              IF T[i].txn_type = "RECEIPT" /\ T[i].lot = lot_id THEN T[i].qty ELSE 0])

\* C24: an ISSUE created against a segment whose RECEIPT entries total a
\* quantity of 0 has no unit price and no total value; so has one against a
\* segment that a split created or that only merges fed, whatever the
\* receipts of the lot's other segments.
C24_IssueWithoutReceiptsHasNoPrice ==
    [][(Observed("create_issue") /\ last'.code < 300) =>
         (ReceiptQty(txns, NewTxn.lot) = 0 =>
             /\ NewTxn.txn_type = "ISSUE"
             /\ NewTxn.unit_price = <<>>
             /\ NewTxn.total_value = <<>>)]_vars

\* An issue was accepted against a segment with STATUS_MOVE entries and no
\* RECEIPT, while another segment of the lot has a priced receipt; the issue
\* carries no price.
C24_Witness ==
    /\ last.op = "create_issue" /\ last.code < 300
    /\ LET n == txns[Len(txns)]
       IN /\ n.txn_type = "ISSUE" /\ n.qty > 0
          /\ n.unit_price = <<>> /\ n.total_value = <<>>
          /\ \E i \in DOMAIN txns : txns[i].lot = n.lot /\ txns[i].txn_type = "STATUS_MOVE"
          /\ \A i \in DOMAIN txns : txns[i].lot = n.lot => txns[i].txn_type # "RECEIPT"
          /\ \E i \in DOMAIN txns :
                /\ txns[i].txn_type = "RECEIPT" /\ txns[i].unit_price # <<>>
                /\ txns[i].lot # n.lot /\ SameLot(lots, txns[i].lot, n.lot)

\* C25: an accepted update_issue keeps the unit price the entry has,
\* whatever the segment's receipts have become, and sets the total value to
\* new qty * unit price; an entry with no unit price gets the weighted
\* average of the segment's receipts as they are now, and no unit price and
\* no total value when the segment has none.
C25_IssueEditKeepsUnitPrice ==
    [][(Observed("update_issue") /\ last'.code < 300) =>
         LET r == last'.req
             old == txns[r.id]
             new == txns'[r.id]
         IN /\ IF old.unit_price # <<>>
               THEN new.unit_price = old.unit_price
               ELSE new.unit_price = lot_weighted_unit_price(lots, txns, old.lot)
            /\ IF new.unit_price # <<>>
               THEN new.total_value = <<round_money(r.qty * new.unit_price[1])>>
               ELSE new.total_value = <<>>
            /\ (old.unit_price = <<>> /\ ReceiptQty(txns, old.lot) = 0) =>
                  (new.unit_price = <<>> /\ new.total_value = <<>>)]_vars

\* An issue priced at something else than the present average of its
\* segment's receipts was edited to another quantity: its unit price is the
\* old one and its total value follows the new quantity.
C25_Witness ==
    /\ last.op = "update_issue" /\ last.code < 300
    /\ LET e == edits[Len(edits)]
           t == txns[last.req.id]
       IN /\ e.before_json.unit_price # <<>>
          /\ e.before_json.unit_price # lot_weighted_unit_price(lots, txns, t.lot)
          /\ e.before_json.qty # t.qty
          /\ t.unit_price = e.before_json.unit_price
          /\ t.total_value # e.before_json.total_value
          /\ t.total_value = <<round_money(t.qty * t.unit_price[1])>>

\* The fields of an entry on which two records of them differ.
Differing(a, b) == {f \in DOMAIN a \cap DOMAIN b : a[f] # b[f]}

\* C26: the snapshot is a function of the entry's field values, so the
\* fields on which the before and after snapshots of an EditRecord differ
\* are exactly the fields of the entry whose value the edit changed; an
\* edit that changes nothing has before = after.
C26_SnapshotDiffIsTheChange ==
    [][(ObservedEdit /\ last'.code < 300 /\ Len(edits') = Len(edits) + 1) =>
         LET id == last'.req.id
         IN Differing(NewEdit.before_json, NewEdit.after_json)
              = Differing(txns[id], txns'[id])]_vars

\* The reason text of a history row is empty: the reason as given, trimmed,
\* is; the text written on the destination of a merge never is.
ReasonBlank(reason) == Len(reason) = 1 /\ strip(reason[1]) = ""

ReasonsGiven(C) == \A c \in DOMAIN C : ~ReasonBlank(C[c].reason)

\* C27: every StatusChangeRecord there ever is has a reason that is not
\* empty after trimming, and each accepted status change adds, in the step
\* that changes the segment's status or the ledger, at least one
\* StatusChangeRecord of its source segment.
C27_StatusChangesCarryReason ==
    [][/\ ReasonsGiven(changes) /\ ReasonsGiven(changes')
       /\ AcceptedStatusChange =>
             /\ lots' # lots \/ txns' # txns
             /\ \E c \in (Len(changes) + 1) .. Len(changes') :
                   changes'[c].lot = last'.req.id]_vars

\* A merge was accepted: the source's record carries the reason given, the
\* destination's the text built around it.
C27_Witness ==
    /\ last.op = "change_lot_status" /\ last.code < 300
    /\ Len(changes) >= 2
    /\ LET n == Len(changes)
       IN /\ changes[n - 1].lot = last.req.id
          /\ changes[n - 1].reason = <<strip(last.req.reason)>>
          /\ changes[n].lot # last.req.id
          /\ Len(changes[n].reason) = 4
          /\ changes[n].reason[4] = strip(last.req.reason)
          /\ ReasonsGiven(changes)

\* The permission decision for the caller of the observed request is not
\* 'allow': there is no authenticated user, or the user's role grants
\* nothing.
CallerDenied(r) == r.user \notin Users \/ Permissions[r.user] = {}

\* C28: a change_lot_status request from an unauthenticated caller, or from
\* a caller who is denied the permission to change lot status, writes no
\* segment, no ledger entry and no StatusChangeRecord, as for the edits of
\* issues and receipts behind require_permission.
C28_StatusChangeNeedsPermission ==
    [][(ObservedStatusChange /\ CallerDenied(last'.req)) =>
         (lots' = lots /\ txns' = txns /\ changes' = changes)]_vars

\* C29: the actor on the StatusChangeRecords and STATUS_MOVE entries that a
\* status change writes is the authenticated user of the request, whatever
\* changed_by the payload carries.
C29_ActorIsAuthenticatedUser ==
    [][AcceptedStatusChange =>
         /\ \A c \in (Len(changes) + 1) .. Len(changes') :
               changes'[c].changed_by = last'.req.user
         /\ \A i \in (Len(txns) + 1) .. Len(txns') :
               txns'[i].created_by = last'.req.user]_vars

\* Session s ends its status-change request in this step with a commit that
\* the uniqueness constraint on (material, lot_number, status) refuses.
CommitRefused(s) ==
    /\ sess[s].pc = "staged" /\ sess'[s].pc # "staged"
    /\ sess[s].op = "change_lot_status"
    /\ ~UniqueOk(LotsAfter(lots, sess[s].out.w))

\* C30: a status change whose commit is refused by a storage constraint
\* that validation did not catch (the uniqueness constraint, after losing a
\* race with another flip or split) is answered with a validation or
\* conflict error (400, 409 or 422), and none of its writes is committed.
C30_RefusedCommitIsConflict ==
    [][\A s \in Sessions :
         CommitRefused(s) =>
            /\ sess'[s].pc = "done"
            /\ sess'[s].code \in {400, 409, 422}
            /\ lots' = lots /\ txns' = txns /\ changes' = changes]_vars

\* qty * direction summed over the entries of T with index in S.
RECURSIVE SumOver(_, _)
SumOver(T, S) ==
    IF S = {} THEN 0
    ELSE LET i == CHOOSE j \in S : TRUE
         IN T[i].qty * T[i].direction + SumOver(T, S \ {i})

\* The balance of a segment: over all its entries, of whatever type, and
\* over no entry of another segment.
SegmentBalance(T, lot_id) == SumOver(T, {i \in DOMAIN T : T[i].lot = lot_id})

\* The balance of a lot: over the entries of all its segments.
LotBalance(L, T, lot_id) ==
    SumOver(T, {i \in DOMAIN T : SameLot(L, T[i].lot, lot_id)})

\* C31: the balance that create_issue, change_lot_status, update_issue and
\* update_receipt check a request against is the sum of qty * direction
\* over all entries (RECEIPT, ISSUE, STATUS_MOVE) of the targeted segment
\* and of no other segment of the lot; it is 0 for a segment with no
\* entries.
C31_BalanceIsOfTheSegment ==
    [][/\ Observed("create_issue") =>
            LET r == last'.req
                S == ResolvedSegments(lots, r)
            IN (r.material_code \in Materials /\ Cardinality(S) <= 1) =>
                  LET b == IF S = {} THEN 0
                           ELSE SegmentBalance(txns, CHOOSE j \in S : TRUE)
                  IN IF r.material_lot_id # 0 /\ S = {}
                     THEN last'.code = 404
                     ELSE (last'.code < 300) = (r.qty <= b)
       /\ ObservedStatusChange =>
            LET r == last'.req
                b == SegmentBalance(txns, r.id)
            IN /\ last'.detail = "Cannot change status: lot has zero balance" => b <= 0
               /\ last'.detail = "move_qty exceeds current balance" => r.move_qty[1] > b
               /\ last'.code < 300 =>
                     /\ b > 0
                     /\ ~r.whole_lot => r.move_qty[1] <= b
                     /\ (r.whole_lot /\ Len(txns') > Len(txns)) =>
                           txns'[Len(txns) + 1].qty = b
       /\ ObservedEdit =>
            LET r == last'.req
            IN EditReachesBalanceCheck(txns, last'.op, r) =>
                  LET t == txns[r.id]
                      b == SegmentBalance(txns, t.lot)
                  IN (last'.code < 300) =
                       (b - t.qty * t.direction + r.qty * t.direction >= 0)]_vars

\* An issue of 2 from a segment that holds 1, on a lot whose segments hold
\* 2 together, was refused for insufficient stock.
C31_Witness ==
    /\ last.op = "create_issue"
    /\ last.code = 400 /\ last.detail = "Insufficient stock"
    /\ last.req.material_lot_id \in DOMAIN lots
    /\ SegmentBalance(txns, last.req.material_lot_id) < last.req.qty
    /\ LotBalance(lots, txns, last.req.material_lot_id) >= last.req.qty
    /\ \E i \in DOMAIN txns :
          txns[i].lot = last.req.material_lot_id /\ txns[i].txn_type = "STATUS_MOVE"

\* The quantity of the entries of one type on the segments of a lot.
QtyOfType(L, T, lot_id, type) ==
    SumSeq([i \in DOMAIN T |->
              IF T[i].txn_type = type /\ SameLot(L, T[i].lot, lot_id)
              THEN T[i].qty ELSE 0])

\* The balances of the segments of every lot add up to what was received of
\* the lot less what was issued of it.
Conserved(L, T) ==
    \A id \in DOMAIN L :
        LotBalance(L, T, id) = QtyOfType(L, T, id, "RECEIPT") - QtyOfType(L, T, id, "ISSUE")

\* C32: in every reachable state the balances of the segments of a
\* (material, lot_number) sum to its RECEIPT quantities less its ISSUE
\* quantities; a flip, merge or split leaves that total as it was, and
\* leaves the balance of every segment of another (material, lot_number)
\* as it was.
C32_QuantityConservedPerLot ==
    [][/\ Conserved(lots, txns) /\ Conserved(lots', txns')
       /\ Len(changes') > Len(changes) =>
             LET src == changes'[Len(changes) + 1].lot
             IN \A id \in DOMAIN lots :
                   /\ LotBalance(lots', txns', id) = LotBalance(lots, txns, id)
                   /\ ~SameLot(lots, id, src) =>
                         SegmentBalance(txns', id) = SegmentBalance(txns, id)]_vars

\* Two lots are in stock; a quantity was moved between two segments of one
\* of them.
C32_Witness ==
    /\ \E i, j \in DOMAIN lots : ~SameLot(lots, i, j) /\ SegmentBalance(txns, j) > 0
    /\ Len(txns) >= 2
    /\ txns[Len(txns)].txn_type = "STATUS_MOVE"
    /\ txns[Len(txns) - 1].txn_type = "STATUS_MOVE"
    /\ txns[Len(txns)].lot # txns[Len(txns) - 1].lot
    /\ Conserved(lots, txns)

\* Entries a and b of T are the two halves of one move: a takes a quantity
\* from a segment, b puts the same quantity on another segment of the lot.
MovePair(L, T, a, b) ==
    /\ a \in DOMAIN T /\ b \in DOMAIN T
    /\ T[a].txn_type = "STATUS_MOVE" /\ T[b].txn_type = "STATUS_MOVE"
    /\ T[a].direction = -1 /\ T[b].direction = 1
    /\ T[a].qty = T[b].qty
    /\ T[a].lot # T[b].lot
    /\ SameLot(L, T[a].lot, T[b].lot)

\* Every STATUS_MOVE entry is half of the pair it was written in: a debit
\* is followed by its credit, a credit preceded by its debit.
MovesPaired(L, T) ==
    \A i \in DOMAIN T :
        T[i].txn_type = "STATUS_MOVE" =>
            IF T[i].direction = -1 THEN MovePair(L, T, i, i + 1)
            ELSE MovePair(L, T, i - 1, i)

\* C33: in every reachable state each STATUS_MOVE entry of direction -1 is
\* matched one to one with a STATUS_MOVE entry of direction +1 and equal
\* qty on another segment of the same (material, lot_number), and
\* update_issue and update_receipt answer 'not found' to the id of a
\* STATUS_MOVE entry, leaving the ledger as it was.
C33_StatusMovesPairedAndImmutable ==
    [][/\ MovesPaired(lots, txns) /\ MovesPaired(lots', txns')
       /\ ObservedEdit =>
            LET r == last'.req
            IN (r.id \in DOMAIN txns /\ txns[r.id].txn_type = "STATUS_MOVE") =>
                  /\ last'.code = IF strip(r.edit_reason) = "" THEN 400 ELSE 404
                  /\ txns' = txns /\ edits' = edits]_vars

\* An edit of a receipt that named a STATUS_MOVE entry, with a reason and a
\* quantity other than the entry's, was answered 'not found'.
C33_Witness ==
    /\ last.op = "update_receipt"
    /\ last.code = 404 /\ last.detail = "Receipt not found"
    /\ last.req.id \in DOMAIN txns
    /\ txns[last.req.id].txn_type = "STATUS_MOVE"
    /\ txns[last.req.id].qty # last.req.qty
    /\ MovesPaired(lots, txns)

\* The edit records written after record a for the entry of record a.
LaterEdits(E, a) == {b \in DOMAIN E : b > a /\ E[b].txn = E[a].txn}

\* C34: for every ledger entry, the after snapshot of each of its
\* EditRecords is the before snapshot of the next one, and the after
\* snapshot of the latest is the snapshot of the entry as it is now.
C34_EditHistoryContinuous ==
    \A a \in DOMAIN edits :
        IF LaterEdits(edits, a) = {}
        THEN edits[a].after_json = snapshot_txn(edits[a].txn, txns[edits[a].txn])
        ELSE edits[a].after_json = edits[Min(LaterEdits(edits, a))].before_json

\* The status values the step wrote: of segments it created or whose
\* status it set, and of the history rows it added.
StatusesWritten ==
    {lots'[i].status : i \in {j \in DOMAIN lots' :
                                j \notin DOMAIN lots \/ lots'[j].status # lots[j].status}}
    \cup {changes'[c].new_status : c \in (Len(changes) + 1) .. Len(changes')}
    \cup {changes'[c].old_status : c \in (Len(changes) + 1) .. Len(changes')}

\* The segments whose stored status is outside the three allowed values.
OutsideSet(L) == {j \in DOMAIN L : L[j].status \notin ALLOWED_LOT_STATUSES}

\* C35: every status an operation writes (of a segment created by a
\* receipt, an issue or a split, set by a flip, or put as old or new status
\* on a StatusChangeRecord for a segment whose stored status is in the set)
\* is AVAILABLE, QUARANTINE or REJECTED; RELEASED is never written.
C35_OnlyAllowedStatusesWritten ==
    [][/\ "RELEASED" \notin StatusesWritten
       /\ \A i \in DOMAIN lots' :
             (i \notin DOMAIN lots \/ lots'[i].status # lots[i].status) =>
                lots'[i].status \in ALLOWED_LOT_STATUSES
       /\ \A c \in (Len(changes) + 1) .. Len(changes') :
             /\ changes'[c].new_status \in ALLOWED_LOT_STATUSES
             /\ (\A j \in OutsideSet(lots) : ~SameLot(lots', j, changes'[c].lot)) =>
                   changes'[c].old_status \in ALLOWED_LOT_STATUSES]_vars

\* A change to 'RELEASED' was accepted as a whole-lot flip: the segment is
\* AVAILABLE and its record says AVAILABLE.
C35_Witness ==
    /\ last.op = "change_lot_status" /\ last.code < 300
    /\ last.req.new_status = "RELEASED"
    /\ lots[last.req.id].status = "AVAILABLE"
    /\ changes[Len(changes)].lot = last.req.id
    /\ changes[Len(changes)].new_status = "AVAILABLE"
    /\ changes[Len(changes)].old_status \in ALLOWED_LOT_STATUSES

\* The receipt request passes the checks that precede the lookup of the
\* lot.
ReceiptReachesLookup(r) ==
    r.complies_es_criteria /\ r.material_code \in Materials /\ r.approved

\* C36: create_receipt finds its target by (material, lot_number) alone.
\* With no segment it creates one AVAILABLE segment and appends the RECEIPT
\* to it; with exactly one segment, of whatever status, it appends the
\* RECEIPT to that one and creates none; with two or more it applies
\* nothing: no ledger entry and no segment is written.
C36_ReceiptTargetResolution ==
    [][(Observed("create_receipt") /\ ReceiptReachesLookup(last'.req)) =>
         LET r == last'.req
             matches == LotsOf(lots, r.material_code, r.lot_number)
             n == Len(lots)
         IN CASE matches = {} ->
                   /\ last'.code < 300
                   /\ Len(lots') = n + 1
                   /\ \A i \in DOMAIN lots : lots'[i] = lots[i]
                   /\ lots'[n + 1].material_id = r.material_code
                   /\ lots'[n + 1].lot_number = r.lot_number
                   /\ lots'[n + 1].status = "AVAILABLE"
                   /\ Len(txns') = Len(txns) + 1
                   /\ \A i \in DOMAIN txns : txns'[i] = txns[i]
                   /\ NewTxn.txn_type = "RECEIPT" /\ NewTxn.lot = n + 1
                   /\ NewTxn.qty = r.qty /\ NewTxn.direction = 1
              [] Cardinality(matches) = 1 ->
                   /\ last'.code < 300
                   /\ Len(lots') = n
                   /\ \A i \in DOMAIN lots : lots'[i].status = lots[i].status
                   /\ Len(txns') = Len(txns) + 1
                   /\ \A i \in DOMAIN txns : txns'[i] = txns[i]
                   /\ NewTxn.txn_type = "RECEIPT" /\ {NewTxn.lot} = matches
                   /\ NewTxn.qty = r.qty /\ NewTxn.direction = 1
              [] OTHER ->
                   /\ last'.code >= 400
                   /\ lots' = lots /\ txns' = txns
                   /\ changes' = changes /\ edits' = edits]_vars

\* A receipt for a lot that has two segments was not applied.
C36_Witness ==
    /\ last.op = "create_receipt"
    /\ ReceiptReachesLookup(last.req)
    /\ last.req.qty > 0
    /\ Cardinality(LotsOf(lots, last.req.material_code, last.req.lot_number)) >= 2
    /\ last.code >= 400

\* Nothing of the database changes in the step.
NoWrite ==
    lots' = lots /\ txns' = txns /\ changes' = changes /\ edits' = edits

\* The step appends one ISSUE entry, on segment id, and changes no entry
\* that existed.
IssueAppendedTo(id) ==
    /\ Len(txns') = Len(txns) + 1
    /\ \A i \in DOMAIN txns : txns'[i] = txns[i]
    /\ NewTxn.txn_type = "ISSUE"
    /\ NewTxn.lot = id

\* C37: create_issue writes its ISSUE entry to exactly one, unambiguous
\* segment.  With material_lot_id it is the segment of that id when that
\* segment belongs to the named material, and otherwise the answer is 404
\* and nothing is written.  Without it, it is the only segment of
\* (material, lot_number), and with two or more segments of that lot number
\* the request is refused and nothing is written.
C37_IssueTargetUnambiguous ==
    [][(Observed("create_issue") /\ last'.req.material_code \in Materials) =>
         LET r == last'.req
             id == r.material_lot_id
             matches == LotsOf(lots, r.material_code, r.lot_number)
             accepted == last'.code < 300
         IN /\ ~accepted => NoWrite
            /\ IF id # 0
               THEN IF id \in DOMAIN lots /\ lots[id].material_id = r.material_code
                    THEN accepted => IssueAppendedTo(id) /\ lots' = lots
                    ELSE last'.code = 404 /\ NoWrite
               ELSE IF Cardinality(matches) > 1
                    THEN last'.code = 400 /\ NoWrite
                    ELSE accepted =>
                           \E s \in DOMAIN lots' :
                              /\ LotsOf(lots', r.material_code, r.lot_number) = {s}
                              /\ matches \subseteq {s}
                              /\ IssueAppendedTo(s)]_vars

\* An issue that names no segment, on a lot number with two segments, was
\* refused as ambiguous and wrote nothing.
C37_Witness ==
    /\ last.op = "create_issue"
    /\ last.req.material_lot_id = 0
    /\ last.req.material_code \in Materials
    /\ Cardinality(LotsOf(lots, last.req.material_code, last.req.lot_number)) >= 2
    /\ last.code = 400
    /\ last.detail = "Multiple lot segments exist for this lot number"

\* A RECEIPT adds to its segment and an ISSUE takes from it.
DirectionByType(T) ==
    \A i \in DOMAIN T :
        /\ T[i].txn_type = "RECEIPT" => T[i].direction = 1
        /\ T[i].txn_type = "ISSUE" => T[i].direction = -1

C39_IssueIgnoresStatus ==
    [][(Observed("create_issue") /\ last'.req.material_code \in Materials) =>
         LET r == last'.req
             segs == ResolvedSegments(lots, r)
         IN \A s \in segs :
              segs = {s} =>
                /\ (last'.code < 300) <=> (r.qty <= SegmentBalance(txns, s))
                /\ (last'.code < 300) =>
                      /\ IssueAppendedTo(s)
                      /\ NewTxn.status_at = lots[s].status
                      /\ lots'[s].status = lots[s].status]_vars

\* An issue of a positive quantity against a segment that is not AVAILABLE
\* was accepted and carries that status.
C39_Witness ==
    /\ last.op = "create_issue"
    /\ last.code < 300
    /\ last.req.qty > 0
    /\ txns # <<>>
    /\ LET t == txns[Len(txns)]
       IN /\ t.txn_type = "ISSUE"
          /\ t.qty = last.req.qty
          /\ lots[t.lot].status \in {"QUARANTINE", "REJECTED"}
          /\ t.status_at = lots[t.lot].status

\* The users that are active and have the role ADMIN.
ActiveAdmins(U) == {i \in DOMAIN U : U[i].role = "ADMIN" /\ U[i].is_active}

\* The built-in admin: the row named 'admin' that no request created.
BuiltInAdmin(U) ==
    {i \in DOMAIN U : U[i].username = PROTECTED_ADMIN_USERNAME /\ U[i].created_by = NULL}

\* C40: from a state with at least one active ADMIN user, after any
\* sequence and any interleaving of update_user, create_user, update_role
\* and delete_role requests there is still at least one active user with
\* role ADMIN, and the built-in user 'admin' is active and has role ADMIN.
C40_ActiveAdminRemains ==
    /\ ActiveAdmins(users) # {}
    /\ \A i \in BuiltInAdmin(users) : users[i].is_active /\ users[i].role = "ADMIN"

\* The part of C40 about the built-in user alone.
C40_BuiltInAdminProtected ==
    \A i \in BuiltInAdmin(users) : users[i].is_active /\ users[i].role = "ADMIN"

====
